---- MODULE Spec2Model ----
(***************************************************************************)
(* A model of nsw_tas_fuel.client.NSWFuelApiClient: the OAuth2 token       *)
(* cache (_async_get_token), the retrying request pipeline                 *)
(* (_async_request with its nested _parse_response / _handle_http_error)   *)
(* and the four public operations that validate and deserialize the body.  *)
(*                                                                         *)
(* Python values are modelled as tagged records:                           *)
(*   None -> Null, str -> Str(s), int/float -> Num(n), list -> List(seq),  *)
(*   dict -> Dict(function from keys to values).                           *)
(* A response body that is not JSON is Raw(text).                          *)
(* An asyncio step (the code between two awaits) is one action.            *)
(***************************************************************************)
EXTENDS Integers, Sequences, FiniteSets, TLC

VARIABLES token, token_expiry, now, call

vars == <<token, token_expiry, now, call>>

(***************************************************************************)
(* Bounds of the model.                                                    *)
(***************************************************************************)
\* the clock (time.time(), in seconds) runs from 0 to MaxNow
MaxNow == 2

(***************************************************************************)
(* Program constants (const.py, client.py).                                *)
(***************************************************************************)
HTTP_CLIENT_SERVER_ERROR == 400
HTTP_INTERNAL_SERVER_ERROR == 500
HTTP_TIMEOUT_ERROR == 408
HTTP_UNAUTHORIZED == 401
\* client.py:100  the refresh margin in "now > (self._token_expiry - 60)"
EXPIRY_MARGIN == 60
\* client.py:158  result.get("expires_in", 3600)
DEFAULT_EXPIRES_IN == 3600
\* client.py:259  max_retries = 1 (the mutant allows one more retry)
max_retries_two == 1 + 1
max_retries == 1

\* The concurrent invocations a client can carry in this model.
Calls == {1, 2}

(***************************************************************************)
(* Python values.                                                          *)
(***************************************************************************)
Null == [t |-> "null"]
Str(s) == [t |-> "str", s |-> s]
Num(n) == [t |-> "num", n |-> n]
List(a) == [t |-> "list", a |-> a]
Dict(d) == [t |-> "dict", d |-> d]
\* a body that json parsing rejects, with its text
Raw(s) == [t |-> "raw", s |-> s]
EmptyDict == Dict(<<>>)

\* bool(v): None, "", 0, [] and {} are falsy
Truthy(v) ==
    CASE v.t = "null" -> FALSE
      [] v.t = "str"  -> v.s # ""
      [] v.t = "num"  -> v.n # 0
      [] v.t = "list" -> v.a # <<>>
      [] v.t = "dict" -> DOMAIN v.d # {}
      [] OTHER        -> TRUE

\* d.get(k) on a dict value
Get(v, k) == IF k \in DOMAIN v.d THEN v.d[k] ELSE Null

\* Python's "a or b"
Or(a, b) == IF Truthy(a) THEN a ELSE b

\* A formatted message: the f-string template with what it interpolates.
Fmt(f, x) == [t |-> "fmt", f |-> f, x |-> x]

\* The result of evaluating code that may raise.
Ok(v) == [exc |-> "none", msg |-> Null, val |-> v]
Raise(e, m) == [exc |-> e, msg |-> m, val |-> Null]

\* The three exception classes of client.py (base class: NSWFuelApiClientError).
AuthError == "NSWFuelApiClientAuthError"
ConnectionError == "NSWFuelApiClientConnectionError"
ApiError == "NSWFuelApiClientError"
DomainErrors == {AuthError, ConnectionError, ApiError}

(***************************************************************************)
(* What the HTTP transport hands back for one request: an exception        *)
(* raised by the session (connection refused, timeout, ...), or a response *)
(* with a status and a body.  The body is a JSON value or Raw text.        *)
(***************************************************************************)
Response(status, body) == [exc |-> "none", status |-> status, body |-> body]
TransportError == [exc |-> "ClientConnectionError", status |-> 0, body |-> Null]
\* no response at hand
NoResponse == [exc |-> "no response", status |-> 0, body |-> Null]

(***************************************************************************)
(* Token Manager: _async_get_token.                                        *)
(***************************************************************************)
\* the mutant refreshes at the boundary as well
needs_refresh_at_boundary(tok, expiry, n) ==
    ~Truthy(tok) \/ n >= expiry - EXPIRY_MARGIN

\* the mutant looks at the expiry only, not at whether a token is held
needs_refresh_by_expiry(tok, expiry, n) ==
    n > expiry - EXPIRY_MARGIN

\* client.py:100  if not self._token or now > (self._token_expiry - 60)
needs_refresh(tok, expiry, n) ==
    ~Truthy(tok) \/ n > expiry - EXPIRY_MARGIN

\* aiohttp's ClientResponse.raise_for_status raises ClientResponseError
\* when the status is 400 or higher (response.ok is status < 400).
raise_for_status(status) == status >= HTTP_CLIENT_SERVER_ERROR

\* client.py:111-149  the try block: the parsed JSON body, or the exception
\* that leaves the block.  Both content-type branches parse the body text as
\* JSON; the NSWFuelApiClientError raised at line 132 is itself caught by
\* "except Exception" at line 146 and wrapped again.
token_request(resp) ==
    IF resp.exc # "none"
    THEN Raise(ApiError, Fmt("Unexpected error fetching token: {err}", Str(resp.exc)))
    ELSE IF raise_for_status(resp.status)
    THEN IF resp.status = HTTP_UNAUTHORIZED
         THEN Raise(AuthError, Str("Invalid NSW Fuel Check API credentials"))
         ELSE Raise(ApiError,
                    Fmt("Token request failed with status {err.status}: {err.message}",
                        Num(resp.status)))
    ELSE IF resp.body.t = "raw"
    THEN Raise(ApiError,
               Fmt("Unexpected error fetching token: {err}",
                   Str("Failed to parse token response JSON")))
    ELSE Ok(resp.body)

\* int(x) for the strings the model uses
IntOfStr == ("61" :> 61) @@ ("678" :> 678) @@ ("880" :> 880)

\* Python's int(v)
int(v) ==
    CASE v.t = "num" -> Ok(v.n)
      [] v.t = "str" -> IF v.s \in DOMAIN IntOfStr THEN Ok(IntOfStr[v.s])
                        ELSE Raise("ValueError", Str("invalid literal for int()"))
      [] OTHER       -> Raise("TypeError", Str("int() argument must be a string or a number"))

\* the mutant takes expires_in itself as the expiry, without the time read
\* when the call started
token_validate_no_now(result, t) ==
    IF result.t # "dict"
    THEN Raise("AttributeError", Str("object has no attribute 'get'"))
    ELSE LET access_token == Get(result, "access_token")
             expires_in == int(IF "expires_in" \in DOMAIN result.d
                               THEN result.d["expires_in"]
                               ELSE Num(DEFAULT_EXPIRES_IN))
         IN  IF ~Truthy(access_token)
             THEN Raise(ApiError, Str("No access token in NSW Fuel Check token response"))
             ELSE IF expires_in.exc # "none"
             THEN expires_in
             ELSE Ok([token |-> access_token, expiry |-> expires_in.val])

\* client.py:151-160  validate the token response and compute the new slot.
\* These lines are outside the try block: what they raise is not wrapped.
token_validate(result, t) ==
    IF result.t # "dict"
    THEN Raise("AttributeError", Str("object has no attribute 'get'"))
    ELSE LET access_token == Get(result, "access_token")
             expires_in == int(IF "expires_in" \in DOMAIN result.d
                               THEN result.d["expires_in"]
                               ELSE Num(DEFAULT_EXPIRES_IN))
         IN  IF ~Truthy(access_token)
             THEN Raise(ApiError, Str("No access token in NSW Fuel Check token response"))
             ELSE IF expires_in.exc # "none"
             THEN expires_in
             ELSE Ok([token |-> access_token, expiry |-> t + expires_in.val])

\* client.py:111-160  the refresh, from the response of the token endpoint
token_refresh(resp, t) ==
    LET result == token_request(resp)
    IN  IF result.exc # "none" THEN result ELSE token_validate(result.val, t)

(***************************************************************************)
(* Request Pipeline: _async_request and its nested helpers.                *)
(***************************************************************************)
\* client.py:75-86  _extract_error_details; ed[0].get raises AttributeError
\* when the first element of the list is not a dict.
extract_error_details(data) ==
    IF data.t # "dict"
    THEN Ok(Null)
    ELSE LET ed == Get(data, "errorDetails")
         IN  IF ed.t = "list" /\ ed.a # <<>>
             THEN IF ed.a[1].t # "dict"
                  THEN Raise("AttributeError", Str("object has no attribute 'get'"))
                  ELSE Ok(Or(Get(ed.a[1], "description"), Get(ed.a[1], "message")))
             ELSE IF ed.t = "dict"
             THEN Ok(Or(Get(ed, "description"), Get(ed, "message")))
             ELSE Ok(Null)

\* const.py:6  DEFAULT_TIMEOUT, in seconds
DEFAULT_TIMEOUT == 30

\* client.py:65, 187  self._client_id, as given to the constructor
client_id == Str("client_id")

\* client.py:184-190  the headers _build_headers starts from.  The
\* transaction id and the timestamp are drawn afresh for every request
\* (uuid.uuid4(), datetime.now(UTC)); they stand here as what draws them.
base_headers(tok) ==
    [k \in {"Authorization", "Content-Type", "apikey", "TransactionID", "RequestTimestamp"} |->
        CASE k = "Authorization"    -> Fmt("Bearer {token}", tok)
          [] k = "Content-Type"     -> Str("application/json")
          [] k = "apikey"           -> client_id
          [] k = "TransactionID"    -> Fmt("{uuid}", Str("uuid.uuid4()"))
          [] k = "RequestTimestamp" -> Fmt("{isoformat}", Str("datetime.now(UTC)"))]

\* dict.update: the entries of other replace and extend those of d
update(d, other) ==
    [k \in DOMAIN d \cup DOMAIN other |-> IF k \in DOMAIN other THEN other[k] ELSE d[k]]

\* the mutant keeps the base header where both give a key
build_headers_base_first(tok, extra_headers) ==
    IF Truthy(extra_headers)
    THEN Dict(update(extra_headers.d, base_headers(tok)))
    ELSE Dict(base_headers(tok))

\* client.py:183-193  _build_headers; extra_headers is None or a dict
build_headers(tok, extra_headers) ==
    IF Truthy(extra_headers)
    THEN Dict(update(base_headers(tok), extra_headers.d))
    ELSE Dict(base_headers(tok))

\* client.py:195-199  _parse_response: the JSON value, else the raw text
parse_response(body) == IF body.t = "raw" THEN Str(body.s) ELSE body

\* What _handle_http_error decides.
Decision(act, clear, exc, msg) == [act |-> act, clear |-> clear, exc |-> exc, msg |-> msg]

\* the mutant retries after every 408, the last attempt included
handle_http_error_retry_again(status, data, attempt, maxr) ==
    LET details == extract_error_details(data)
    IN  IF details.exc # "none"
        THEN Decision("raise", FALSE, details.exc, details.msg)
        ELSE IF status = HTTP_UNAUTHORIZED
        THEN IF attempt < maxr
             THEN Decision("retry", TRUE, "none", Null)
             ELSE Decision("raise", FALSE, AuthError,
                           Or(details.val, Str("Authentication failed during request.")))
        ELSE IF status = HTTP_TIMEOUT_ERROR
        THEN IF attempt <= maxr
             THEN Decision("retry", FALSE, "none", Null)
             ELSE Decision("raise", FALSE, ConnectionError,
                           Or(details.val, Str("Request timed out after retry.")))
        ELSE IF status >= HTTP_INTERNAL_SERVER_ERROR
        THEN Decision("raise", FALSE, ConnectionError,
                      Or(details.val, Fmt("Server error {status}: {response.reason}", Num(status))))
        ELSE IF status >= HTTP_CLIENT_SERVER_ERROR
        THEN Decision("raise", FALSE, ApiError,
                      Or(details.val, Fmt("HTTP error {status}: {response.reason}", Num(status))))
        ELSE Decision("return", FALSE, "none", Null)

\* the mutant clears the token on every 401, the last one included
handle_http_error_clear_always(status, data, attempt, maxr) ==
    LET details == extract_error_details(data)
    IN  IF details.exc # "none"
        THEN Decision("raise", FALSE, details.exc, details.msg)
        ELSE IF status = HTTP_UNAUTHORIZED
        THEN IF attempt < maxr
             THEN Decision("retry", TRUE, "none", Null)
             ELSE Decision("raise", TRUE, AuthError,
                           Or(details.val, Str("Authentication failed during request.")))
        ELSE IF status = HTTP_TIMEOUT_ERROR
        THEN IF attempt < maxr
             THEN Decision("retry", FALSE, "none", Null)
             ELSE Decision("raise", FALSE, ConnectionError,
                           Or(details.val, Str("Request timed out after retry.")))
        ELSE IF status >= HTTP_INTERNAL_SERVER_ERROR
        THEN Decision("raise", FALSE, ConnectionError,
                      Or(details.val, Fmt("Server error {status}: {response.reason}", Num(status))))
        ELSE IF status >= HTTP_CLIENT_SERVER_ERROR
        THEN Decision("raise", FALSE, ApiError,
                      Or(details.val, Fmt("HTTP error {status}: {response.reason}", Num(status))))
        ELSE Decision("return", FALSE, "none", Null)

\* the mutant retries after a 401 without clearing the token
handle_http_error_keep_token(status, data, attempt, maxr) ==
    LET details == extract_error_details(data)
    IN  IF details.exc # "none"
        THEN Decision("raise", FALSE, details.exc, details.msg)
        ELSE IF status = HTTP_UNAUTHORIZED
        THEN IF attempt < maxr
             THEN Decision("retry", FALSE, "none", Null)
             ELSE Decision("raise", FALSE, AuthError,
                           Or(details.val, Str("Authentication failed during request.")))
        ELSE IF status = HTTP_TIMEOUT_ERROR
        THEN IF attempt < maxr
             THEN Decision("retry", FALSE, "none", Null)
             ELSE Decision("raise", FALSE, ConnectionError,
                           Or(details.val, Str("Request timed out after retry.")))
        ELSE IF status >= HTTP_INTERNAL_SERVER_ERROR
        THEN Decision("raise", FALSE, ConnectionError,
                      Or(details.val, Fmt("Server error {status}: {response.reason}", Num(status))))
        ELSE IF status >= HTTP_CLIENT_SERVER_ERROR
        THEN Decision("raise", FALSE, ApiError,
                      Or(details.val, Fmt("HTTP error {status}: {response.reason}", Num(status))))
        ELSE Decision("return", FALSE, "none", Null)

\* the mutant clears the token before the retry after a 408 as well
handle_http_error_clear_on_timeout(status, data, attempt, maxr) ==
    LET details == extract_error_details(data)
    IN  IF details.exc # "none"
        THEN Decision("raise", FALSE, details.exc, details.msg)
        ELSE IF status = HTTP_UNAUTHORIZED
        THEN IF attempt < maxr
             THEN Decision("retry", TRUE, "none", Null)
             ELSE Decision("raise", FALSE, AuthError,
                           Or(details.val, Str("Authentication failed during request.")))
        ELSE IF status = HTTP_TIMEOUT_ERROR
        THEN IF attempt < maxr
             THEN Decision("retry", TRUE, "none", Null)
             ELSE Decision("raise", FALSE, ConnectionError,
                           Or(details.val, Str("Request timed out after retry.")))
        ELSE IF status >= HTTP_INTERNAL_SERVER_ERROR
        THEN Decision("raise", FALSE, ConnectionError,
                      Or(details.val, Fmt("Server error {status}: {response.reason}", Num(status))))
        ELSE IF status >= HTTP_CLIENT_SERVER_ERROR
        THEN Decision("raise", FALSE, ApiError,
                      Or(details.val, Fmt("HTTP error {status}: {response.reason}", Num(status))))
        ELSE Decision("return", FALSE, "none", Null)

\* client.py:202-257  _handle_http_error
handle_http_error(status, data, attempt, maxr) ==
    LET details == extract_error_details(data)
    IN  IF details.exc # "none"
        THEN Decision("raise", FALSE, details.exc, details.msg)
        ELSE IF status = HTTP_UNAUTHORIZED
        THEN IF attempt < maxr
             THEN Decision("retry", TRUE, "none", Null)
             ELSE Decision("raise", FALSE, AuthError,
                           Or(details.val, Str("Authentication failed during request.")))
        ELSE IF status = HTTP_TIMEOUT_ERROR
        THEN IF attempt < maxr
             THEN Decision("retry", FALSE, "none", Null)
             ELSE Decision("raise", FALSE, ConnectionError,
                           Or(details.val, Str("Request timed out after retry.")))
        ELSE IF status >= HTTP_INTERNAL_SERVER_ERROR
        THEN Decision("raise", FALSE, ConnectionError,
                      Or(details.val, Fmt("Server error {status}: {response.reason}", Num(status))))
        ELSE IF status >= HTTP_CLIENT_SERVER_ERROR
        THEN Decision("raise", FALSE, ApiError,
                      Or(details.val, Fmt("HTTP error {status}: {response.reason}", Num(status))))
        ELSE Decision("return", FALSE, "none", Null)

\* client.py:273-320  one pass through the try block of the retry loop:
\* the three error classes are re-raised, anything else is wrapped.
request_attempt(resp, attempt) ==
    IF resp.exc # "none"
    THEN Decision("raise", FALSE, ApiError, Fmt("{err}", Str(resp.exc)))
    ELSE LET h == handle_http_error(resp.status, parse_response(resp.body),
                                    attempt, max_retries)
         IN  IF h.act = "raise" /\ h.exc \notin DomainErrors
             THEN Decision("raise", FALSE, ApiError, Fmt("{err}", h.msg))
             ELSE h

(***************************************************************************)
(* Python operations on values that the deserializers use.                 *)
(***************************************************************************)
\* The texts of the model that contain a key as a substring.
SubstringPairs ==
    { <<"prices", "prices and stations">>, <<"stations", "prices and stations">>,
      <<"prices", "no prices today">> }

\* k in v
py_in(k, v) ==
    CASE v.t = "dict" -> Ok(k \in DOMAIN v.d)
      [] v.t = "list" -> Ok(\E i \in 1..Len(v.a) : v.a[i] = Str(k))
      [] v.t = "str"  -> Ok(k = v.s \/ <<k, v.s>> \in SubstringPairs)
      [] OTHER        -> Raise("TypeError", Str("argument is not iterable"))

\* v[k] for a string key k
Index(v, k) ==
    CASE v.t = "dict" -> IF k \in DOMAIN v.d THEN Ok(v.d[k])
                         ELSE Raise("KeyError", Str(k))
      [] OTHER        -> Raise("TypeError", Str("indices must be integers / not subscriptable"))

\* v.get(k)
DictGet(v, k) ==
    IF v.t = "dict" THEN Ok(Get(v, k))
    ELSE Raise("AttributeError", Str("object has no attribute 'get'"))

\* The elements "for x in v" visits: a dict yields its keys, a string its
\* characters (one-character strings).
Iterate(v) ==
    CASE v.t = "list" -> Ok(v.a)
      [] v.t = "dict" -> Ok([i \in 1..Cardinality(DOMAIN v.d) |-> Str("key")])
      [] v.t = "str"  -> Ok([i \in 1..(IF v.s = "" THEN 0 ELSE 1) |-> Str("c")])
      [] OTHER        -> Raise("TypeError", Str("object is not iterable"))

\* The first exception of a sequence of results, else Ok(Null).
FirstExc(rs) ==
    IF \E i \in 1..Len(rs) : rs[i].exc # "none"
    THEN rs[CHOOSE i \in 1..Len(rs) :
               /\ rs[i].exc # "none"
               /\ \A j \in 1..(i - 1) : rs[j].exc = "none"]
    ELSE Ok(Null)

\* [F(x) for x in v]: the list of results, or the first exception raised
Comprehension(F(_), v) ==
    LET it == Iterate(v)
    IN  IF it.exc # "none" THEN it
        ELSE LET rs == [i \in 1..Len(it.val) |-> F(it.val[i])]
                 bad == FirstExc(rs)
             IN  IF bad.exc # "none" THEN bad
                 ELSE Ok([i \in 1..Len(rs) |-> rs[i].val])

\* The date-time texts of the model, with the strptime format each matches
\* and the instant it denotes.
DateFormatOf ==
    ("01/06/2018 02:03:04" :> "%d/%m/%Y %H:%M:%S") @@
    ("2018-06-01 02:03:04" :> "%Y-%m-%d %H:%M:%S")
DateInstantOf ==
    ("01/06/2018 02:03:04" :> "2018-06-01T02:03:04") @@
    ("2018-06-01 02:03:04" :> "2018-06-01T02:03:04")

\* datetime.strptime(v, fmt)
strptime(v, fmt) ==
    IF v.t # "str"
    THEN Raise("TypeError", Str("strptime() argument 1 must be str"))
    ELSE IF v.s \in DOMAIN DateFormatOf /\ DateFormatOf[v.s] = fmt
    THEN Ok([t |-> "datetime", s |-> DateInstantOf[v.s]])
    ELSE Raise("ValueError", Str("time data does not match format"))

\* the mutant suppresses every exception, not only ValueError
suppressed_strptime_any(data, fmt) ==
    LET raw == Index(data, "lastupdated")
        parsed == IF raw.exc # "none" THEN raw ELSE strptime(raw.val, fmt)
    IN  IF parsed.exc # "none" THEN Ok(Null) ELSE parsed

\* with suppress(ValueError): x = strptime(data["lastupdated"], fmt)
\* gives the new x; any other exception leaves the block.
suppressed_strptime(data, fmt) ==
    LET raw == Index(data, "lastupdated")
        parsed == IF raw.exc # "none" THEN raw ELSE strptime(raw.val, fmt)
    IN  IF parsed.exc = "ValueError" THEN Ok(Null) ELSE parsed

(***************************************************************************)
(* Domain model: dto.py.                                                   *)
(***************************************************************************)
\* dto.py:25-47  Price.deserialize
Price_deserialize(data) ==
    LET first == suppressed_strptime(data, "%d/%m/%Y %H:%M:%S")
        second == IF first.exc = "none" /\ first.val = Null
                  THEN suppressed_strptime(data, "%Y-%m-%d %H:%M:%S")
                  ELSE first
        has_code == py_in("stationcode", data)
        station_code == IF has_code.exc # "none" THEN has_code
                        ELSE IF has_code.val
                        THEN LET n == int(data.d["stationcode"])
                             IN  IF n.exc # "none" THEN n ELSE Ok(Num(n.val))
                        ELSE Ok(Null)
        fueltype == Index(data, "fueltype")
        price == Index(data, "price")
        priceunit == DictGet(data, "priceunit")
        bad == FirstExc(<<first, second, station_code, fueltype, price, priceunit>>)
    IN  IF bad.exc # "none" THEN bad
        ELSE Ok([t |-> "Price", fuel_type |-> fueltype.val, price |-> price.val,
                 last_updated |-> second.val, price_unit |-> priceunit.val,
                 station_code |-> station_code.val])

\* v[k1][k2]
Index2(v, k1, k2) ==
    LET a == Index(v, k1) IN IF a.exc # "none" THEN a ELSE Index(a.val, k2)

\* int(v[k])
IntIndex(v, k) ==
    LET a == Index(v, k)
        n == IF a.exc # "none" THEN a ELSE int(a.val)
    IN  IF n.exc # "none" THEN n ELSE Ok(Num(n.val))

\* dto.py:76-88  Station.deserialize
Station_deserialize(data) ==
    LET ident == DictGet(data, "stationid")
        brand == Index(data, "brand")
        code == IntIndex(data, "code")
        name == Index(data, "name")
        address == Index(data, "address")
        latitude == Index2(data, "location", "latitude")
        longitude == Index2(data, "location", "longitude")
        state == DictGet(data, "state")
        bad == FirstExc(<<ident, brand, code, name, address, latitude, longitude, state>>)
    IN  IF bad.exc # "none" THEN bad
        ELSE Ok([t |-> "Station", ident |-> ident.val, brand |-> brand.val,
                 code |-> code.val, name |-> name.val, address |-> address.val,
                 latitude |-> latitude.val, longitude |-> longitude.val,
                 au_state |-> Or(state.val, Str("NSW"))])

\* dto.py:193-199, 229-235  FuelType.deserialize, SortField.deserialize
CodeName_deserialize(data) ==
    LET code == Index(data, "code")
        name == Index(data, "name")
        bad == FirstExc(<<code, name>>)
    IN  IF bad.exc # "none" THEN bad
        ELSE Ok([t |-> "CodeName", code |-> code.val, name |-> name.val])

\* dto.py:211-217  TrendPeriod.deserialize
TrendPeriod_deserialize(data) ==
    LET period == Index(data, "period")
        description == Index(data, "description")
        bad == FirstExc(<<period, description>>)
    IN  IF bad.exc # "none" THEN bad
        ELSE Ok([t |-> "TrendPeriod", period |-> period.val,
                 description |-> description.val])

\* x["name"]
BrandName(x) == Index(x, "name")

\* [F(x) for x in data[k]["items"]]
Items(F(_), data, k) ==
    LET items == Index2(data, k, "items")
    IN  IF items.exc # "none" THEN items ELSE Comprehension(F, items.val)

\* dto.py:253-271  GetReferenceDataResponse.deserialize
GetReferenceDataResponse_deserialize(data) ==
    LET stations == Items(Station_deserialize, data, "stations")
        brands == Items(BrandName, data, "brands")
        fuel_types == Items(CodeName_deserialize, data, "fueltypes")
        trend_periods == Items(TrendPeriod_deserialize, data, "trendperiods")
        sort_fields == Items(CodeName_deserialize, data, "sortfields")
        bad == FirstExc(<<stations, brands, fuel_types, trend_periods, sort_fields>>)
    IN  IF bad.exc # "none" THEN bad
        ELSE Ok([t |-> "GetReferenceDataResponse", stations |-> stations.val,
                 brands |-> brands.val, fuel_types |-> fuel_types.val,
                 trend_periods |-> trend_periods.val, sort_fields |-> sort_fields.val])

\* [F(x) for x in data[k]]
Each(F(_), data, k) ==
    LET xs == Index(data, k)
    IN  IF xs.exc # "none" THEN xs ELSE Comprehension(F, xs.val)

\* the mutant keeps only the prices of the stations it has deserialized
GetFuelPricesResponse_deserialize_joined(data) ==
    LET stations == Each(Station_deserialize, data, "stations")
        prices == Each(Price_deserialize, data, "prices")
        bad == FirstExc(<<stations, prices>>)
    IN  IF bad.exc # "none" THEN bad
        ELSE Ok([t |-> "GetFuelPricesResponse", stations |-> stations.val,
                 prices |-> SelectSeq(prices.val,
                               LAMBDA p : \E i \in 1..Len(stations.val) :
                                              stations.val[i].code = p.station_code)])

\* dto.py:288-296  GetFuelPricesResponse.deserialize
GetFuelPricesResponse_deserialize(data) ==
    LET stations == Each(Station_deserialize, data, "stations")
        prices == Each(Price_deserialize, data, "prices")
        bad == FirstExc(<<stations, prices>>)
    IN  IF bad.exc # "none" THEN bad
        ELSE Ok([t |-> "GetFuelPricesResponse", stations |-> stations.val,
                 prices |-> prices.val])

(***************************************************************************)
(* Public operations: what each does with the outcome of _async_request.   *)
(***************************************************************************)
\* "k1 not in response or k2 not in response": TRUE, FALSE or the exception
missing_key(response, k1, k2) ==
    LET a == py_in(k1, response)
        b == py_in(k2, response)
    IN  IF a.exc # "none" THEN a
        ELSE IF ~a.val THEN Ok(TRUE)
        ELSE IF b.exc # "none" THEN b
        ELSE Ok(~b.val)

\* client.py:357-368  get_fuel_prices, after the request
get_fuel_prices(response) ==
    IF ~Truthy(response)
    THEN Raise(ApiError, Str("No data returned from NSW Fuel API"))
    ELSE LET missing == missing_key(response, "prices", "stations")
         IN  IF missing.exc # "none" THEN missing
             ELSE IF missing.val
             THEN Raise(ApiError, Str("Malformed response: missing required fields"))
             ELSE GetFuelPricesResponse_deserialize(response)

\* the mutant reports empty prices as a malformed or empty response
get_fuel_prices_for_station_one_message(response) ==
    LET has == py_in("prices", response)
        malformed == Raise(ApiError, Fmt("Malformed or empty response for station {station_code}", Null))
    IN  IF ~Truthy(response) THEN malformed
        ELSE IF has.exc # "none" THEN has
        ELSE IF ~has.val THEN malformed
        ELSE LET prices_data == DictGet(response, "prices")
             IN  IF prices_data.exc # "none" THEN prices_data
                 ELSE IF ~Truthy(prices_data.val) THEN malformed
                 ELSE Comprehension(Price_deserialize, prices_data.val)

\* client.py:407-425  get_fuel_prices_for_station, after the request
get_fuel_prices_for_station(response) ==
    LET has == py_in("prices", response)
        malformed == Raise(ApiError, Fmt("Malformed or empty response for station {station_code}", Null))
    IN  IF ~Truthy(response) THEN malformed
        ELSE IF has.exc # "none" THEN has
        ELSE IF ~has.val THEN malformed
        ELSE LET prices_data == DictGet(response, "prices")
             IN  IF prices_data.exc # "none" THEN prices_data
                 ELSE IF ~Truthy(prices_data.val)
                 THEN Raise(ApiError, Fmt("No price data found for station {station_code}", Null))
                 ELSE Comprehension(Price_deserialize, prices_data.val)

\* client.py:510-513  one item of the dict comprehension: key, then value
station_item(station) ==
    LET code == IntIndex(station, "code")
        value == Station_deserialize(station)
    IN  IF code.exc # "none" THEN code
        ELSE IF value.exc # "none" THEN value
        ELSE Ok([code |-> code.val, station |-> value.val])

\* the mutant pairs every price with the first station
lookup_first(items, code) == items[1].station

\* stations.get(code): the last item with that key, else None
lookup(items, code) ==
    LET hits == {i \in 1..Len(items) : items[i].code = code}
    IN  IF hits = {} THEN Null
        ELSE items[CHOOSE i \in hits : \A j \in hits : j <= i].station

\* the mutant catches nothing: a price entry that fails ends the operation
skipped_none(exc) == FALSE

\* client.py:526  except (KeyError, TypeError, ValueError): the entry is
\* skipped
skipped(exc) == exc \in {"KeyError", "TypeError", "ValueError"}

\* client.py:516-527  the loop over prices_data: the StationPrice list, or
\* the exception that is not one of KeyError, TypeError, ValueError
RECURSIVE join_prices(_, _, _)
join_prices(prices, items, acc) ==
    IF prices = <<>> THEN Ok(acc)
    ELSE LET price == Price_deserialize(Head(prices))
             station == IF price.exc = "none" /\ price.val.station_code # Null
                        THEN lookup(items, price.val.station_code)
                        ELSE Null
         IN  IF skipped(price.exc)
             THEN join_prices(Tail(prices), items, acc)
             ELSE IF price.exc # "none" THEN price
             ELSE IF station # Null
             THEN join_prices(Tail(prices), items,
                              Append(acc, [t |-> "StationPrice", price |-> price.val,
                                           station |-> station]))
             ELSE join_prices(Tail(prices), items, acc)

\* the mutant goes on with an empty stations or prices list
get_fuel_prices_within_radius_unchecked(response) ==
    LET missing == missing_key(response, "stations", "prices")
        malformed == Raise(ApiError, Fmt("Malformed or empty response for location ({latitude}, {longitude})", Null))
    IN  IF ~Truthy(response) THEN malformed
        ELSE IF missing.exc # "none" THEN missing
        ELSE IF missing.val THEN malformed
        ELSE LET stations_data == DictGet(response, "stations")
                 prices_data == DictGet(response, "prices")
             IN  IF stations_data.exc # "none" THEN stations_data
                 ELSE IF FALSE
                 THEN Raise(ApiError, Fmt("No stations/prices found for location ({latitude}, {longitude})", Null))
                 ELSE LET stations == Comprehension(station_item, stations_data.val)
                          each == Iterate(prices_data.val)
                      IN  IF stations.exc # "none" THEN stations
                          ELSE IF each.exc # "none" THEN each
                          ELSE join_prices(each.val, stations.val, <<>>)

\* client.py:497-540  get_fuel_prices_within_radius, after the request
get_fuel_prices_within_radius(response) ==
    LET missing == missing_key(response, "stations", "prices")
        malformed == Raise(ApiError, Fmt("Malformed or empty response for location ({latitude}, {longitude})", Null))
    IN  IF ~Truthy(response) THEN malformed
        ELSE IF missing.exc # "none" THEN missing
        ELSE IF missing.val THEN malformed
        ELSE LET stations_data == DictGet(response, "stations")
                 prices_data == DictGet(response, "prices")
             IN  IF stations_data.exc # "none" THEN stations_data
                 ELSE IF ~Truthy(stations_data.val) \/ ~Truthy(prices_data.val)
                 THEN Raise(ApiError, Fmt("No stations/prices found for location ({latitude}, {longitude})", Null))
                 ELSE LET stations == Comprehension(station_item, stations_data.val)
                          each == Iterate(prices_data.val)
                      IN  IF stations.exc # "none" THEN stations
                          ELSE IF each.exc # "none" THEN each
                          ELSE join_prices(each.val, stations.val, <<>>)

\* the mutant deserializes whatever the request returned
get_reference_data_unchecked(response) ==
    GetReferenceDataResponse_deserialize(response)

\* client.py:591-595  get_reference_data, after the request
get_reference_data(response) ==
    IF ~Truthy(response)
    THEN Raise(ApiError, Str("Empty response from reference data endpoint"))
    ELSE GetReferenceDataResponse_deserialize(response)

Ops == {"get_fuel_prices", "get_fuel_prices_for_station",
        "get_fuel_prices_within_radius", "get_reference_data"}

\* The validation and deserialization of each operation.
validate(op, response) ==
    CASE op = "get_fuel_prices" -> get_fuel_prices(response)
      [] op = "get_fuel_prices_for_station" -> get_fuel_prices_for_station(response)
      [] op = "get_fuel_prices_within_radius" -> get_fuel_prices_within_radius(response)
      [] op = "get_reference_data" -> get_reference_data(response)

\* The context each operation puts in front of an unexpected exception.
UnexpectedMsg(op) ==
    CASE op = "get_fuel_prices" -> "Unexpected error fetching fuel prices:"
      [] op = "get_fuel_prices_for_station" -> "Unexpected failure getting station prices for {station_code}: {err}"
      [] op = "get_fuel_prices_within_radius" -> "Unexpected error fetching nearby prices for ({latitude}, {longitude}): {err}"
      [] op = "get_reference_data" -> "Unexpected failure fetching reference data: {err}"

\* client.py:339-368, 387-425, 459-540, 573-595  a public operation, from
\* the outcome of its _async_request call: the try block covers the request
\* only; validation and deserialization run after it.
public_operation(op, out) ==
    IF out.exc \in DomainErrors THEN out
    ELSE IF out.exc # "none" THEN Raise(ApiError, Fmt(UnexpectedMsg(op), out.msg))
    ELSE validate(op, out.val)

(***************************************************************************)
(* The inputs of the model: what the two endpoints may answer.             *)
(***************************************************************************)
TokenStatuses == {200, 304, 401, 403, 500}

TokenBodies ==
    { Dict([access_token |-> Str("tokA")]),
      Dict([access_token |-> Str("tokB"), expires_in |-> Num(61)]),
      Dict([access_token |-> Str("tokA"), expires_in |-> Str("61")]),
      Dict([access_token |-> Str("tokB"), expires_in |-> Num(60)]),
      Dict([access_token |-> Str("tokA"), expires_in |-> Str("soon")]),
      Dict([access_token |-> Str("tokA"), expires_in |-> Null]),
      Dict([access_token |-> Null, expires_in |-> Num(61)]),
      Dict([access_token |-> Str("")]),
      Dict([error |-> Str("invalid_client")]),
      List(<<>>),
      Null,
      Raw("not valid json!!!") }

TokenResponses ==
    {TransportError} \cup {Response(st, b) : st \in TokenStatuses, b \in TokenBodies}

DataStatuses == {200, 304, 400, 401, 404, 408, 500, 503}

StationA ==
    Dict([stationid |-> Str("1-GFYV"), brand |-> Str("Cool Fuel Brand"), code |-> Num(678),
          name |-> Str("Cool Fuel Brand Hurstville"), address |-> Str("123 Fake Street"),
          location |-> Dict([latitude |-> Num(-33), longitude |-> Num(151)]),
          state |-> Str("TAS")])
StationB ==
    Dict([brand |-> Str("Fake Fuel Brand"), code |-> Str("880"),
          name |-> Str("Fake Fuel Brand Kogarah"), address |-> Str("123 Fake Street"),
          location |-> Dict([latitude |-> Num(-34), longitude |-> Num(152)])])
PriceA ==
    Dict([stationcode |-> Str("678"), fueltype |-> Str("E10"), price |-> Num(146),
          lastupdated |-> Str("01/06/2018 02:03:04")])
PriceB ==
    Dict([stationcode |-> Num(880), fueltype |-> Str("P95"), price |-> Num(150),
          priceunit |-> Str("litre"), lastupdated |-> Str("2018-06-01 02:03:04")])
PriceNoDate ==
    Dict([stationcode |-> Num(678), fueltype |-> Str("U91"), price |-> Num(139)])
\* prices whose lastupdated is a text in neither format, and null
PriceBadDate ==
    Dict([fueltype |-> Str("P98"), price |-> Num(170), lastupdated |-> Str("soon")])
PriceNullDate ==
    Dict([fueltype |-> Str("P98"), price |-> Num(170), lastupdated |-> Null])
\* a price of a station that the response does not list
PriceOrphan ==
    Dict([stationcode |-> Str("61"), fueltype |-> Str("DL"), price |-> Num(160),
          lastupdated |-> Str("01/06/2018 02:03:04")])
\* price entries that Price.deserialize rejects
PriceNoFuel ==
    Dict([stationcode |-> Num(678), price |-> Num(139),
          lastupdated |-> Str("01/06/2018 02:03:04")])
PriceNullCode ==
    Dict([stationcode |-> Null, fueltype |-> Str("U91"), price |-> Num(139),
          lastupdated |-> Str("01/06/2018 02:03:04")])
PriceBadCode ==
    Dict([stationcode |-> Str("abc"), fueltype |-> Str("U91"), price |-> Num(139),
          lastupdated |-> Str("01/06/2018 02:03:04")])

ReferenceBody ==
    Dict([stations |-> Dict([items |-> List(<<StationA, StationB>>)]),
          brands |-> Dict([items |-> List(<<Dict([name |-> Str("Cool Fuel Brand")])>>)]),
          fueltypes |-> Dict([items |-> List(<<Dict([code |-> Str("E10"), name |-> Str("Ethanol 94")])>>)]),
          trendperiods |-> Dict([items |-> List(<<Dict([period |-> Str("Day"), description |-> Str("Description for day")])>>)]),
          sortfields |-> Dict([items |-> List(<<Dict([code |-> Str("Sort 1"), name |-> Str("Sort field 1")])>>)])])

DataBodies ==
    { EmptyDict,
      Null,
      Num(5),
      Raw(""),
      Raw("Internal Server Error"),
      Raw("prices and stations"),
      Dict([errorDetails |-> List(<<Dict([code |-> Str("E0014"),
                                          description |-> Str("Invalid service station code")])>>)]),
      Dict([errorDetails |-> Dict([code |-> Str("-2146233033"),
                                   message |-> Str("String was not recognized as a valid DateTime.")])]),
      Dict([errorDetails |-> Dict([description |-> Str("")])]),
      Dict([errorDetails |-> List(<<Str("E0014")>>)]),
      Dict([stations |-> List(<<StationA, StationB>>), prices |-> List(<<PriceA, PriceB>>)]),
      Dict([stations |-> List(<<StationA, StationB>>),
            prices |-> List(<<PriceB, PriceOrphan, PriceA>>)]),
      Dict([stations |-> List(<<StationA>>),
            prices |-> List(<<PriceNoFuel, PriceNullCode, PriceBadCode, PriceNoDate, PriceA>>)]),
      Dict([stations |-> List(<<Dict([code |-> Num(678)])>>), prices |-> List(<<PriceA>>)]),
      Dict([prices |-> List(<<PriceB, PriceBadDate>>)]),
      Dict([prices |-> List(<<PriceNoDate>>)]),
      Dict([prices |-> List(<<PriceNullDate>>)]),
      Dict([prices |-> List(<<>>)]),
      List(<<>>),
      ReferenceBody }

DataResponses ==
    {TransportError} \cup {Response(st, b) : st \in DataStatuses, b \in DataBodies}

(***************************************************************************)
(* The state of one invocation of a public operation.                      *)
(*   op        the public operation that was called                        *)
(*   since     get_reference_data was called with modified_since, and its  *)
(*             request carries the if-modified-since header                *)
(*   extra     the extra_headers that _async_request was called with       *)
(*   pc        where the coroutine is suspended: "idle" (not called),      *)
(*             "token_wait" (line 112), "data_wait" (line 274),            *)
(*             "sleep" (line 291), "returned" (_async_request is over),    *)
(*             "done" (the operation has returned or raised)               *)
(*   attempt   the loop counter of _async_request                          *)
(*   t_now     "now" of the running _async_get_token call                  *)
(*   bearer    the token of the data request that was sent last            *)
(*   headers   the headers of the data request that was sent last          *)
(*   timeout   the timeout argument of the request that was sent last,     *)
(*             Null when it was sent without one (the session's applies)   *)
(*   rejected  the token with which the invocation before this one failed  *)
(*             on a second 401, kept until this invocation receives its    *)
(*             first response                                              *)
(*   cleared   the token that line 225 overwrote with None, kept while the *)
(*             invocation sleeps before its retry                          *)
(*   ntoken, ndata   the token and data requests sent so far               *)
(*   answered  the requests that have ended, with a response or with an    *)
(*             exception of the transport                                  *)
(*   statuses  the statuses of the data responses received so far          *)
(*   tok_status  the status of the token response received last (0: none)  *)
(*   ended_by  what ended _async_request: the "token" response or the      *)
(*             "data" response kept in last, or the "loop" (lines 264-268  *)
(*             and 322-324)                                                *)
(*   last      the response that ended _async_request                      *)
(*   req       the outcome of _async_request                               *)
(*   res       the outcome of the public operation                         *)
(***************************************************************************)
Pending == [exc |-> "pending", msg |-> Null, val |-> Null]

IdleCall ==
    [pc |-> "idle", op |-> "none", since |-> FALSE, extra |-> Null,
     attempt |-> 0, t_now |-> 0, bearer |-> Null, headers |-> Null, timeout |-> Null,
     cleared |-> Null, rejected |-> Null,
     ntoken |-> 0, ndata |-> 0, answered |-> 0, statuses |-> <<>>, tok_status |-> 0,
     ended_by |-> "none", last |-> NoResponse,
     req |-> Pending, res |-> Pending]

\* _async_request ends with outcome out, on response resp
finish(r, by, resp, out) ==
    [r EXCEPT !.pc = "returned", !.req = out, !.ended_by = by, !.last = resp]

\* the mutant sends the retry along with the request, without waiting for
\* the response
send_data_with_retry(r, tok) ==
    IF ~Truthy(tok)
    THEN finish(r, "loop", NoResponse,
                Raise(ApiError, Str("No access token available for NSW Fuel API request")))
    ELSE [r EXCEPT !.pc = "data_wait", !.bearer = tok, !.ndata = @ + 2,
                   !.headers = build_headers(tok, r.extra),
                   !.timeout = Num(DEFAULT_TIMEOUT)]

\* client.py:264-281  with the token in hand: check it, build the headers
\* and send the data request
send_data(r, tok) ==
    IF ~Truthy(tok)
    THEN finish(r, "loop", NoResponse,
                Raise(ApiError, Str("No access token available for NSW Fuel API request")))
    ELSE [r EXCEPT !.pc = "data_wait", !.bearer = tok, !.ndata = @ + 1,
                   !.headers = build_headers(tok, r.extra),
                   !.timeout = Num(DEFAULT_TIMEOUT)]

\* client.py:262  while attempt <= max_retries
loop_guard(attempt) == attempt <= max_retries

\* client.py:262-263, 98-115, 322-324  the top of the retry loop, up to the
\* first await: leave the loop, or start a refresh (the token request is
\* sent without a timeout argument), or go on with the cached token
loop_top(r) ==
    IF ~loop_guard(r.attempt)
    THEN finish(r, "loop", NoResponse,
                Raise(ApiError, Str("Failed to perform http request")))
    ELSE IF needs_refresh(token, token_expiry, now)
    THEN [r EXCEPT !.pc = "token_wait", !.t_now = now, !.ntoken = @ + 1,
                   !.timeout = Null]
    ELSE send_data([r EXCEPT !.t_now = now], token)

(***************************************************************************)
(* Initial state: client.py:60-68.                                         *)
(***************************************************************************)
Init ==
    /\ token = Null
    /\ token_expiry = 0
    /\ now = 0
    /\ call = [c \in Calls |-> IdleCall]

(***************************************************************************)
(* Actions.                                                                *)
(***************************************************************************)
\* client.py:565-567  whether the caller gives modified_since: an argument
\* of get_reference_data only
ModifiedSince(o) == IF o = "get_reference_data" THEN BOOLEAN ELSE {FALSE}

\* client.py:71-72, 340-343, 388-391, 473-479, 565-578  the extra_headers
\* argument that each operation gives to _async_request
extra_headers(o, since) ==
    CASE o = "get_fuel_prices_within_radius" ->
             Dict([k \in {"Content-Type"} |-> Str("application/json")])
      [] o = "get_reference_data" ->
             IF since
             THEN Dict([k \in {"if-modified-since"} |->
                           Fmt("%d/%m/%Y %I:%M:%S %p", Str("modified_since"))])
             ELSE EmptyDict
      [] OTHER -> Null

\* A caller invokes public operation o; it runs up to its first await.
Call(c, o) ==
    /\ call[c].pc = "idle"
    /\ \E since \in ModifiedSince(o) :
           call' = [call EXCEPT ![c] =
                       loop_top([IdleCall EXCEPT !.op = o, !.since = since,
                                                 !.extra = extra_headers(o, since),
                                                 !.rejected = call[c].rejected])]
    /\ UNCHANGED <<token, token_expiry, now>>

\* the mutant drops the cached token when the refresh fails
TokenResponse_dropping(c, resp) ==
    /\ call[c].pc = "token_wait"
    /\ LET out == token_refresh(resp, call[c].t_now)
           r == [call[c] EXCEPT !.tok_status = resp.status, !.answered = @ + 1,
                                !.rejected = Null]
       IN  IF out.exc # "none"
           THEN /\ call' = [call EXCEPT ![c] = finish(r, "token", resp, out)]
                /\ token' = Null
                /\ token_expiry' = 0
           ELSE /\ token' = out.val.token
                /\ token_expiry' = out.val.expiry
                /\ call' = [call EXCEPT ![c] = send_data(r, out.val.token)]
    /\ UNCHANGED now

\* client.py:112-162, 263-281  the token endpoint answers: the refresh ends
\* (an exception leaves _async_request unwrapped, line 263 is outside the
\* try block) or stores the slot, returns self._token and the data request
\* is sent.
TokenResponse(c, resp) ==
    /\ call[c].pc = "token_wait"
    /\ LET out == token_refresh(resp, call[c].t_now)
           r == [call[c] EXCEPT !.tok_status = resp.status, !.answered = @ + 1,
                                !.rejected = Null]
       IN  IF out.exc # "none"
           THEN /\ call' = [call EXCEPT ![c] = finish(r, "token", resp, out)]
                /\ UNCHANGED <<token, token_expiry>>
           ELSE /\ token' = out.val.token
                /\ token_expiry' = out.val.expiry
                /\ call' = [call EXCEPT ![c] = send_data(r, out.val.token)]
    /\ UNCHANGED now

\* the mutant clears the token only if it is still the one that the
\* rejected request carried
DataResponse_own_token(c, resp) ==
    /\ call[c].pc = "data_wait"
    /\ LET r == [call[c] EXCEPT !.answered = @ + 1, !.rejected = Null,
                                !.statuses = IF resp.exc = "none"
                                             THEN Append(@, resp.status) ELSE @]
           h == request_attempt(resp, r.attempt)
       IN  /\ token' = IF h.clear /\ token = r.bearer THEN Null ELSE token
           /\ call' = [call EXCEPT ![c] =
                  CASE h.act = "retry"  -> [r EXCEPT !.pc = "sleep", !.attempt = @ + 1,
                                                    !.cleared = IF h.clear THEN token ELSE @]
                    [] h.act = "return" -> finish(r, "data", resp, Ok(parse_response(resp.body)))
                    [] h.act = "raise"  -> finish(r, "data", resp, Raise(h.exc, h.msg))]
    /\ UNCHANGED <<token_expiry, now>>

\* client.py:282-320  the data endpoint answers: parse, classify, then
\* return, raise or go to sleep before the retry.
DataResponse(c, resp) ==
    /\ call[c].pc = "data_wait"
    /\ LET r == [call[c] EXCEPT !.answered = @ + 1, !.rejected = Null,
                                !.statuses = IF resp.exc = "none"
                                             THEN Append(@, resp.status) ELSE @]
           h == request_attempt(resp, r.attempt)
       IN  /\ token' = IF h.clear THEN Null ELSE token
           /\ call' = [call EXCEPT ![c] =
                  CASE h.act = "retry"  -> [r EXCEPT !.pc = "sleep", !.attempt = @ + 1,
                                                    !.cleared = IF h.clear THEN token ELSE @]
                    [] h.act = "return" -> finish(r, "data", resp, Ok(parse_response(resp.body)))
                    [] h.act = "raise"  -> finish(r, "data", resp, Raise(h.exc, h.msg))]
    /\ UNCHANGED <<token_expiry, now>>

\* client.py:291-292, 262-263  asyncio.sleep returns: continue with the loop
Wake(c) ==
    /\ call[c].pc = "sleep"
    /\ call' = [call EXCEPT ![c] = loop_top([call[c] EXCEPT !.cleared = Null])]
    /\ UNCHANGED <<token, token_expiry, now>>

\* client.py:345-368, 393-425, 481-540, 580-595  the operation handles the
\* outcome of its request: re-raise, wrap, or validate and deserialize.  It
\* reads and writes nothing of the client and does not suspend.
Complete(c) ==
    /\ call[c].pc = "returned"
    /\ call' = [call EXCEPT ![c].pc = "done",
                            ![c].res = public_operation(call[c].op, call[c].req)]
    /\ UNCHANGED <<token, token_expiry, now>>

\* The caller takes the result or the exception; the invocation is over.
\* What is kept of it is the token that its second 401 left in the slot.
Return(c) ==
    /\ call[c].pc = "done"
    /\ call' = [call EXCEPT ![c] =
                   [IdleCall EXCEPT !.rejected =
                       IF /\ call[c].statuses = <<HTTP_UNAUTHORIZED, HTTP_UNAUTHORIZED>>
                          /\ call[c].res.exc = AuthError
                       THEN call[c].bearer ELSE Null]]
    /\ UNCHANGED <<token, token_expiry, now>>

\* time.time() advances by a second.
Tick ==
    /\ now < MaxNow
    /\ now' = now + 1
    /\ UNCHANGED <<token, token_expiry, call>>

\* Sequential use of the client: one invocation at a time.
Sequential == {1}

Next ==
    \/ Tick
    \/ \E c \in Sequential :
        \/ \E o \in Ops : Call(c, o)
        \/ \E resp \in TokenResponses : TokenResponse(c, resp)
        \/ \E resp \in DataResponses : DataResponse(c, resp)
        \/ Wake(c)
        \/ Complete(c)
        \/ Return(c)

Spec == Init /\ [][Next]_vars

(***************************************************************************)
(* The request pipeline on its own: _async_request called with any         *)
(* extra_headers, not only those the four operations give it.              *)
(***************************************************************************)
\* client.py:171  the extra_headers argument: None, or a dict of headers
ExtraHeaders ==
    { Null,
      EmptyDict,
      Dict([k \in {"Content-Type"} |-> Str("application/json")]),
      Dict([k \in {"Content-Type", "if-modified-since"} |->
               IF k = "Content-Type" THEN Str("text/plain")
               ELSE Fmt("%d/%m/%Y %I:%M:%S %p", Str("modified_since"))]),
      Dict([k \in {"Authorization", "apikey", "X-Trace"} |->
               CASE k = "Authorization" -> Str("Basic abc")
                 [] k = "apikey"        -> Str("another id")
                 [] k = "X-Trace"       -> Str("1")]) }

\* client.py:165-263  _async_request is called with extra_headers and runs up
\* to its first await.
Request(c, extra) ==
    /\ call[c].pc = "idle"
    /\ call' = [call EXCEPT ![c] =
                   loop_top([IdleCall EXCEPT !.op = "_async_request", !.extra = extra])]
    /\ UNCHANGED <<token, token_expiry, now>>

\* client.py:294-324  the caller of _async_request takes what it returned or
\* raised.
Returned(c) ==
    /\ call[c].pc = "returned"
    /\ call[c].op = "_async_request"
    /\ call' = [call EXCEPT ![c] = IdleCall]
    /\ UNCHANGED <<token, token_expiry, now>>

RequestNext ==
    \/ Tick
    \/ \E c \in Sequential :
        \/ \E extra \in ExtraHeaders : Request(c, extra)
        \/ \E resp \in TokenResponses : TokenResponse(c, resp)
        \/ \E resp \in DataResponses : DataResponse(c, resp)
        \/ Wake(c)
        \/ Returned(c)

RequestSpec == Init /\ [][RequestNext]_vars

\* The pipeline when every HTTP call ends, with a response or with an
\* exception of the transport, and asyncio.sleep returns: the awaits of
\* lines 112, 274 and 291 are not left pending for ever.
RequestFairness ==
    \A c \in Sequential :
        /\ WF_vars(\E resp \in TokenResponses : TokenResponse(c, resp))
        /\ WF_vars(\E resp \in DataResponses : DataResponse(c, resp))
        /\ WF_vars(Wake(c))

FairRequestSpec == RequestSpec /\ RequestFairness

(***************************************************************************)
(* get_fuel_prices_within_radius on its own: the operation takes up what   *)
(* its request returned, for bodies made of a stations list and a prices   *)
(* list.                                                                   *)
(***************************************************************************)
\* a second station with the code of StationA, as a text
StationA2 ==
    Dict([brand |-> Str("Other Fuel Brand"), code |-> Str("678"),
          name |-> Str("Other Fuel Brand Hurstville"), address |-> Str("125 Fake Street"),
          location |-> Dict([latitude |-> Num(-33), longitude |-> Num(151)])])

RadiusStations ==
    { <<>>, <<StationA>>, <<StationA, StationB>>, <<StationA, StationA2>>,
      <<StationA2, StationA>>, <<StationA2, StationB, StationA>>,
      <<Dict([code |-> Num(678)])>> }

RadiusPrices ==
    { <<>>, <<PriceA>>, <<PriceOrphan>>, <<PriceNoFuel>>,
      <<PriceOrphan, PriceBadCode>>, <<PriceNoDate, PriceNullCode>>,
      <<PriceB, PriceA>>, <<PriceA, PriceOrphan, PriceNoDate>> }

RadiusBodies ==
    { Dict([stations |-> List(st), prices |-> List(pr)]) :
          st \in RadiusStations, pr \in RadiusPrices }

\* client.py:473-495  the invocation when its request has returned body,
\* after one token request and one data request
RadiusReturned(body) ==
    [IdleCall EXCEPT
        !.pc = "returned", !.op = "get_fuel_prices_within_radius",
        !.extra = extra_headers("get_fuel_prices_within_radius", FALSE),
        !.bearer = Str("tokA"),
        !.headers = build_headers(Str("tokA"),
                                  extra_headers("get_fuel_prices_within_radius", FALSE)),
        !.timeout = Num(DEFAULT_TIMEOUT),
        !.ntoken = 1, !.ndata = 1, !.answered = 2,
        !.statuses = <<200>>, !.tok_status = 200,
        !.ended_by = "data", !.last = Response(200, body), !.req = Ok(body)]

RadiusInit ==
    /\ token = Str("tokA")
    /\ token_expiry = DEFAULT_EXPIRES_IN
    /\ now = 0
    /\ \E body \in RadiusBodies :
           call = [c \in Calls |-> IF c \in Sequential THEN RadiusReturned(body)
                                   ELSE IdleCall]

RadiusNext ==
    \E c \in Sequential :
        \/ Complete(c)
        \/ Return(c)

RadiusSpec == RadiusInit /\ [][RadiusNext]_vars

(***************************************************************************)
(* Concurrent use of one client: the invocations of Calls interleave at    *)
(* their awaits.  Nothing in client.py serializes them: the class holds no *)
(* lock.  The endpoints answer from a few responses.                       *)
(***************************************************************************)
ConcurrentTokenResponses ==
    { Response(200, Dict([access_token |-> Str("tokA")])),
      Response(200, Dict([access_token |-> Str("tokB"), expires_in |-> Num(61)])),
      Response(401, Dict([error |-> Str("invalid_client")])) }

ConcurrentDataResponses ==
    { Response(200, Dict([prices |-> List(<<PriceNoDate>>)])),
      Response(401, EmptyDict),
      Response(408, EmptyDict) }

\* the operation that the concurrent callers invoke
ConcurrentOps == {"get_fuel_prices"}

ConcurrentNext ==
    \/ Tick
    \/ \E c \in Calls :
        \/ \E o \in ConcurrentOps : Call(c, o)
        \/ \E resp \in ConcurrentTokenResponses : TokenResponse(c, resp)
        \/ \E resp \in ConcurrentDataResponses : DataResponse(c, resp)
        \/ Wake(c)
        \/ Complete(c)
        \/ Return(c)

ConcurrentSpec == Init /\ [][ConcurrentNext]_vars

(***************************************************************************)
(* Properties.                                                             *)
(***************************************************************************)
\* _async_request of invocation c has returned or raised.
Over(c) == call[c].pc \in {"returned", "done"}

\* _async_request of invocation c ended on a data response (not on a
\* transport failure, a token failure or the loop itself).
EndedOnData(c) ==
    Over(c) /\ call[c].ended_by = "data" /\ call[c].last.exc = "none"

\* The description, else the message, of an errorDetails entry.
DetailsOf(x) ==
    IF x.t = "dict" THEN Or(Get(x, "description"), Get(x, "message")) ELSE Null

\* The error text a body supplies: from the first element of an errorDetails
\* list, or from an errorDetails object; Null when it supplies none.
SuppliedDetails(body) ==
    IF body.t # "dict" THEN Null
    ELSE LET ed == Get(body, "errorDetails")
         IN  IF ed.t = "list" /\ ed.a # <<>> THEN DetailsOf(ed.a[1]) ELSE DetailsOf(ed)

\* The message of an error raised for a response: the supplied error text,
\* else the given template with the status.
MessageFor(resp, template) ==
    Or(SuppliedDetails(resp.body), Fmt(template, Num(resp.status)))

\* A body whose errorDetails is a list that starts with something that is
\* not an object: _extract_error_details raises on it.
BadDetails(body) ==
    /\ body.t = "dict"
    /\ Get(body, "errorDetails").t = "list"
    /\ Get(body, "errorDetails").a # <<>>
    /\ Get(body, "errorDetails").a[1].t # "dict"

\* C1: a 401 on the first data attempt clears the cached token and causes
\* exactly one retry; a second 401 makes the call fail with
\* NSWFuelApiClientAuthError, and no third data request is sent.
C1_Retry401 ==
    \A c \in Calls :
        LET r == call[c]
        IN  /\ (r.statuses # <<>> /\ r.statuses[1] = HTTP_UNAUTHORIZED) =>
                  /\ r.attempt = 1
                  /\ r.ndata <= 2
                  /\ (r.pc = "sleep" => token = Null)
            /\ (r.statuses = <<HTTP_UNAUTHORIZED, HTTP_UNAUTHORIZED>>) =>
                  /\ Over(c)
                  /\ r.req.exc = AuthError
                  /\ r.ndata = 2

\* C2: a 408 on the first data attempt causes exactly one retry; a second
\* 408 makes the call fail with NSWFuelApiClientConnectionError, and no
\* third data request is sent.
C2_Retry408 ==
    \A c \in Calls :
        LET r == call[c]
        IN  /\ (r.statuses # <<>> /\ r.statuses[1] = HTTP_TIMEOUT_ERROR) =>
                  /\ r.attempt = 1
                  /\ r.ndata <= 2
            /\ (r.statuses = <<HTTP_TIMEOUT_ERROR, HTTP_TIMEOUT_ERROR>>) =>
                  /\ Over(c)
                  /\ r.req.exc = ConnectionError
                  /\ r.ndata = 2

\* C3: one call to _async_request sends at most two data requests, whatever
\* statuses it receives.
C3_AtMostTwoDataRequests ==
    \A c \in Calls : call[c].ndata <= 2 /\ Len(call[c].statuses) <= 2

\* C3 witness: a call that retried after a 408 and then received a 401.
C3_Witness ==
    \E c \in Calls :
        /\ Over(c)
        /\ call[c].ndata = 2
        /\ call[c].statuses = <<HTTP_TIMEOUT_ERROR, HTTP_UNAUTHORIZED>>

\* C4: a data response with status >= 500, on either attempt, ends the call
\* at once with NSWFuelApiClientConnectionError, whose message is the
\* errorDetails text if the body supplies one, else "Server error <status>".
C4_ServerError ==
    \A c \in Calls :
        LET r == call[c]
        IN  /\ (r.statuses # <<>>
                /\ r.statuses[Len(r.statuses)] >= HTTP_INTERNAL_SERVER_ERROR) => Over(c)
            /\ (EndedOnData(c) /\ r.last.status >= HTTP_INTERNAL_SERVER_ERROR) =>
                  /\ r.req.exc = ConnectionError
                  /\ r.req.msg = MessageFor(r.last, "Server error {status}: {response.reason}")

\* The statuses in [400, 500) that are neither 401 nor 408.
ClientErrorStatus(st) ==
    /\ st >= HTTP_CLIENT_SERVER_ERROR
    /\ st < HTTP_INTERNAL_SERVER_ERROR
    /\ st \notin {HTTP_UNAUTHORIZED, HTTP_TIMEOUT_ERROR}

\* C5: a data response with a status in [400, 500) other than 401 and 408
\* ends the call, without a retry, with the base NSWFuelApiClientError,
\* whose message is the errorDetails description (else message) of the
\* first list element or of the object, else "HTTP error <status>".
C5_ClientError ==
    \A c \in Calls :
        LET r == call[c]
        IN  /\ (r.statuses # <<>>
                /\ ClientErrorStatus(r.statuses[Len(r.statuses)])) => Over(c)
            /\ (EndedOnData(c) /\ ClientErrorStatus(r.last.status)) =>
                  /\ r.req.exc = ApiError
                  /\ r.req.msg = MessageFor(r.last, "HTTP error {status}: {response.reason}")

\* Invocation c runs the refresh-or-reuse decision of _async_get_token in
\* this step (line 100).
Decides(c) ==
    /\ call[c].pc \in {"idle", "sleep"}
    /\ call'[c].pc \in {"token_wait", "data_wait"}

\* Invocation c sends a request to the token endpoint in this step.
Exchanges(c) ==
    call'[c].pc = "token_wait" /\ call'[c].ntoken = call[c].ntoken + 1

\* Invocation c goes on with the cached token, without a token request.
Reuses(c) ==
    /\ call'[c].pc = "data_wait"
    /\ call'[c].ntoken = call[c].ntoken
    /\ call'[c].bearer = token
    /\ UNCHANGED <<token, token_expiry>>

\* C6 (as claimed): _async_get_token sends a token request when, and only
\* when, no token is held or now >= token_expiry - 60, the boundary
\* included; otherwise it returns the cached token with no token request.
C6_RefreshAtBoundary ==
    [][\A c \in Calls : Decides(c) =>
          IF ~Truthy(token) \/ now >= token_expiry - EXPIRY_MARGIN
          THEN Exchanges(c) ELSE Reuses(c)]_vars

\* C6 (amended): _async_get_token sends a token request when, and only when,
\* no token is held or now > token_expiry - 60; at now = token_expiry - 60
\* and before, it returns the cached token with no token request.
C6_RefreshAfterBoundary ==
    [][\A c \in Calls : Decides(c) =>
          IF ~Truthy(token) \/ now > token_expiry - EXPIRY_MARGIN
          THEN Exchanges(c) ELSE Reuses(c)]_vars

\* C6 witness: a call that went on with the cached token exactly 60 seconds
\* before its expiry.
C6_Witness ==
    \E c \in Calls :
        /\ call[c].pc = "data_wait"
        /\ call[c].ntoken = 0
        /\ call[c].bearer = token
        /\ call[c].t_now = token_expiry - EXPIRY_MARGIN

\* A 2xx status.
Success(st) == st >= 200 /\ st < 300

\* A parsed token body without a usable access_token: not an object, or the
\* field is absent, null or empty.
LacksAccessToken(body) ==
    /\ body.t # "raw"
    /\ (body.t # "dict" \/ ~Truthy(Get(body, "access_token")))

\* _async_get_token of invocation c has raised: line 263 is outside the try
\* block of _async_request, so req is what _async_get_token raised.
TokenFailed(c) == Over(c) /\ call[c].ended_by = "token"

\* C7: a 2xx token response without a usable access_token makes
\* _async_get_token fail with NSWFuelApiClientError and nothing else.
C7_MissingAccessToken ==
    \A c \in Calls :
        (/\ call[c].tok_status # 0
         /\ call[c].pc # "token_wait"
         /\ TokenFailed(c)
         /\ call[c].last.exc = "none"
         /\ Success(call[c].last.status)
         /\ LacksAccessToken(call[c].last.body)) => call[c].req.exc = ApiError

\* msg is text, or wraps text
Mentions(msg, text) == msg = Str(text) \/ (msg.t = "fmt" /\ msg.x = Str(text))

\* C8: at the token endpoint a 401 gives NSWFuelApiClientAuthError, every
\* other non-2xx status the base NSWFuelApiClientError carrying the status,
\* and a body that is not JSON the base NSWFuelApiClientError whose message
\* contains "Failed to parse token response JSON".
C8_TokenFailures ==
    \A c \in Calls :
        LET r == call[c]
        IN  /\ r.tok_status = HTTP_UNAUTHORIZED =>
                  TokenFailed(c) /\ r.req.exc = AuthError
            /\ (r.tok_status \notin {0, HTTP_UNAUTHORIZED} /\ ~Success(r.tok_status)) =>
                  /\ TokenFailed(c)
                  /\ r.req.exc = ApiError
                  /\ r.req.msg.t = "fmt"
                  /\ r.req.msg.x = Num(r.tok_status)
            /\ (TokenFailed(c) /\ r.last.exc = "none" /\ Success(r.last.status)
                /\ r.last.body.t = "raw") =>
                  /\ r.req.exc = ApiError
                  /\ Mentions(r.req.msg, "Failed to parse token response JSON")

\* C9: whatever escapes _async_request is one of the three error classes;
\* a transport failure of the data request is wrapped into the base
\* NSWFuelApiClientError with the original message.
C9_OnlyDomainErrors ==
    \A c \in Calls :
        LET r == call[c]
        IN  /\ Over(c) => r.req.exc \in DomainErrors \cup {"none"}
            /\ (Over(c) /\ r.ended_by = "data" /\ r.last.exc # "none") =>
                  r.req = Raise(ApiError, Fmt("{err}", Str(r.last.exc)))

\* C10: every public operation returns a result or raises one of the three
\* error classes; no KeyError, TypeError or AttributeError of validation or
\* deserialization reaches the caller.
C10_OperationsRaiseDomainErrors ==
    \A c \in Calls :
        call[c].pc = "done" => call[c].res.exc \in DomainErrors \cup {"none"}

(***************************************************************************)
(* What remains of C1, C2, C4 and C5 when the responses whose errorDetails *)
(* list starts with a non-object (BadDetails) are set aside: on every      *)
(* other response the retry and classification rules hold as claimed.      *)
(***************************************************************************)
\* _async_request of invocation c ended on a response with BadDetails.
EndedOnBadDetails(c) == EndedOnData(c) /\ BadDetails(call[c].last.body)

Retry401_ExceptBadDetails ==
    \A c \in Calls :
        LET r == call[c]
        IN  /\ (r.statuses # <<>> /\ r.statuses[1] = HTTP_UNAUTHORIZED
                /\ ~(EndedOnBadDetails(c) /\ Len(r.statuses) = 1)) =>
                  /\ r.attempt = 1
                  /\ r.ndata <= 2
                  /\ (r.pc = "sleep" => token = Null)
            /\ (r.statuses = <<HTTP_UNAUTHORIZED, HTTP_UNAUTHORIZED>>
                /\ ~EndedOnBadDetails(c)) =>
                  /\ Over(c)
                  /\ r.req.exc = AuthError
                  /\ r.ndata = 2

Retry408_ExceptBadDetails ==
    \A c \in Calls :
        LET r == call[c]
        IN  /\ (r.statuses # <<>> /\ r.statuses[1] = HTTP_TIMEOUT_ERROR
                /\ ~(EndedOnBadDetails(c) /\ Len(r.statuses) = 1)) =>
                  /\ r.attempt = 1
                  /\ r.ndata <= 2
            /\ (r.statuses = <<HTTP_TIMEOUT_ERROR, HTTP_TIMEOUT_ERROR>>
                /\ ~EndedOnBadDetails(c)) =>
                  /\ Over(c)
                  /\ r.req.exc = ConnectionError
                  /\ r.ndata = 2

ServerError_ExceptBadDetails ==
    \A c \in Calls :
        LET r == call[c]
        IN  /\ (r.statuses # <<>>
                /\ r.statuses[Len(r.statuses)] >= HTTP_INTERNAL_SERVER_ERROR) => Over(c)
            /\ (EndedOnData(c) /\ ~BadDetails(r.last.body)
                /\ r.last.status >= HTTP_INTERNAL_SERVER_ERROR) =>
                  /\ r.req.exc = ConnectionError
                  /\ r.req.msg = MessageFor(r.last, "Server error {status}: {response.reason}")

ClientError_ExceptBadDetails ==
    \A c \in Calls :
        LET r == call[c]
        IN  /\ (r.statuses # <<>>
                /\ ClientErrorStatus(r.statuses[Len(r.statuses)])) => Over(c)
            /\ (EndedOnData(c) /\ ClientErrorStatus(r.last.status)) =>
                  /\ r.req.exc = ApiError
                  /\ ~BadDetails(r.last.body) =>
                        r.req.msg = MessageFor(r.last, "HTTP error {status}: {response.reason}")

(***************************************************************************)
(* Token before data.                                                      *)
(***************************************************************************)
\* Invocation c sends a data request in this step.
SendsData(c) == call'[c].ndata = call[c].ndata + 1

\* The data request that invocation c sends in this step carries the
\* non-empty token that _async_get_token returned in this same step (line
\* 162 returns self._token: the slot as it is when the step ends).
CarriesToken(c) ==
    /\ call'[c].pc = "data_wait"
    /\ Truthy(call'[c].bearer)
    /\ call'[c].bearer = token'

\* The public operation of invocation c ends in this step.
Completes(c) == call[c].pc = "returned" /\ call'[c].pc = "done"

\* C11: when token acquisition fails the public operation fails with that
\* error and sends no data request; every data request follows, in the same
\* attempt, a _async_get_token call that returned a non-empty token, and
\* carries that token as its Bearer value.
C11_TokenBeforeData ==
    [][\A c \in Calls :
          /\ SendsData(c) => CarriesToken(c)
          /\ (call[c].pc = "token_wait" /\ TokenFailed(c)') => ~SendsData(c)
          /\ TokenFailed(c) => ~SendsData(c)
          /\ (TokenFailed(c) /\ Completes(c)) => call'[c].res = call[c].req]_vars

\* What remains of C11 when the exceptions that _async_get_token raises
\* outside its error classes are set aside.
TokenBeforeData_DomainErrors ==
    [][\A c \in Calls :
          /\ SendsData(c) => CarriesToken(c)
          /\ (call[c].pc = "token_wait" /\ TokenFailed(c)') => ~SendsData(c)
          /\ TokenFailed(c) => ~SendsData(c)
          /\ (TokenFailed(c) /\ Completes(c)) =>
                /\ call'[c].res.exc \in DomainErrors
                /\ call[c].req.exc \in DomainErrors => call'[c].res = call[c].req]_vars

(***************************************************************************)
(* The token slot after a refresh.                                         *)
(***************************************************************************)
\* The refresh of invocation c succeeds in this step.
Refreshes(c) == call[c].pc = "token_wait" /\ call'[c].pc = "data_wait"

\* The lifetime a token response states, in seconds: its expires_in (a
\* number, or the text of one), 3600 when it has none.
LifetimeOf(body) ==
    IF "expires_in" \notin DOMAIN body.d THEN 3600
    ELSE IF body.d["expires_in"].t = "num" THEN body.d["expires_in"].n
    ELSE IntOfStr[body.d["expires_in"].s]

\* C12: after a successful refresh the token slot holds the access_token of
\* the response and token_expiry is the time read when that
\* _async_get_token call started plus expires_in (3600 when the response
\* has none); the two are written in the same step, and nothing else
\* writes a token or an expiry.
C12_SlotAfterRefresh ==
    [][/\ \A c \in Calls : Refreshes(c) =>
             \A resp \in TokenResponses : TokenResponse(c, resp) =>
                 /\ token' = Get(resp.body, "access_token")
                 /\ token_expiry' = call[c].t_now + LifetimeOf(resp.body)
       /\ (token_expiry' # token_expiry \/ (token' # token /\ token' # Null)) =>
             \E c \in Calls : Refreshes(c)]_vars

\* C12 witness: a refresh that started at time 1 and was answered at time 2
\* by a response without expires_in: the expiry counts from time 1.
C12_Witness ==
    \E c \in Calls :
        /\ call[c].pc = "data_wait"
        /\ call[c].ntoken = 1
        /\ call[c].t_now = 1
        /\ now = 2
        /\ token = Str("tokA")
        /\ call[c].bearer = token
        /\ token_expiry = 1 + DEFAULT_EXPIRES_IN

(***************************************************************************)
(* Responses below 400.                                                    *)
(***************************************************************************)
\* Invocation c receives a data response with a status in this step.
Receives(c) ==
    /\ call[c].pc = "data_wait"
    /\ Len(call'[c].statuses) = Len(call[c].statuses) + 1

\* The status invocation c received last (after the step).
Received(c) == call'[c].statuses[Len(call'[c].statuses)]

\* What a body parses to: the JSON value, or the text when it is not JSON.
ParsedBody(body) == IF body.t = "raw" THEN Str(body.s) ELSE body

\* C13: a data response with a status below 400 makes _async_request
\* return the parsed body (the JSON value, or the raw text) on that one
\* request: it is not retried, no error is raised and the token slot is
\* left as it is.
C13_SuccessReturnsBody ==
    [][\A c \in Calls :
          (Receives(c) /\ Received(c) < HTTP_CLIENT_SERVER_ERROR) =>
              /\ call'[c].pc = "returned"
              /\ call'[c].ended_by = "data"
              /\ call'[c].req = Ok(ParsedBody(call'[c].last.body))
              /\ call'[c].attempt = call[c].attempt
              /\ call'[c].ndata = call[c].ndata
              /\ call'[c].ndata = Len(call'[c].statuses)
              /\ UNCHANGED <<token, token_expiry>>]_vars

\* What remains of C13 when the bodies on which _extract_error_details
\* raises are set aside.
SuccessReturnsBody_ExceptBadDetails ==
    [][\A c \in Calls :
          (Receives(c) /\ Received(c) < HTTP_CLIENT_SERVER_ERROR) =>
              /\ call'[c].pc = "returned"
              /\ call'[c].ended_by = "data"
              /\ ~BadDetails(call'[c].last.body) =>
                    call'[c].req = Ok(ParsedBody(call'[c].last.body))
              /\ call'[c].attempt = call[c].attempt
              /\ call'[c].ndata = call[c].ndata
              /\ call'[c].ndata = Len(call'[c].statuses)
              /\ UNCHANGED <<token, token_expiry>>]_vars

(***************************************************************************)
(* Shape validation of the public operations.                              *)
(***************************************************************************)
\* The public operation op of invocation c is over, and its request had
\* returned a body.
Fetched(c, op) ==
    /\ call[c].pc = "done"
    /\ call[c].op = op
    /\ call[c].req.exc = "none"

\* A fetched body that is empty, or has no top-level key k1 or k2 (a value
\* that is not an object has no keys).
LacksKeys(v, k1, k2) ==
    \/ ~Truthy(v)
    \/ v.t # "dict"
    \/ k1 \notin DOMAIN v.d
    \/ k2 \notin DOMAIN v.d

\* C14: get_fuel_prices and get_fuel_prices_within_radius fail with
\* NSWFuelApiClientError whenever the fetched body is empty or lacks the
\* top-level key prices or stations, raw text bodies included.
C14_MissingKeysRejected ==
    \A c \in Calls :
        \A op \in {"get_fuel_prices", "get_fuel_prices_within_radius"} :
            (Fetched(c, op) /\ LacksKeys(call[c].req.val, "prices", "stations")) =>
                call[c].res.exc = ApiError

\* What remains of C14 for the bodies that are empty or JSON objects.
MissingKeysRejected_Objects ==
    \A c \in Calls :
        \A op \in {"get_fuel_prices", "get_fuel_prices_within_radius"} :
            (/\ Fetched(c, op)
             /\ LacksKeys(call[c].req.val, "prices", "stations")
             /\ (call[c].req.val.t = "dict" \/ ~Truthy(call[c].req.val))) =>
                call[c].res.exc = ApiError

\* The message templates that contain "malformed or empty" (whatever the
\* case of the letters).
MalformedOrEmptyTexts ==
    { "Malformed or empty response for station {station_code}",
      "Malformed or empty response for location ({latitude}, {longitude})" }

\* msg mentions "malformed or empty"
MentionsMalformedOrEmpty(msg) == msg.t = "fmt" /\ msg.f \in MalformedOrEmptyTexts

\* The fetched body is empty, or an object without the field k.
EmptyOrMissing(v, k) == ~Truthy(v) \/ (v.t = "dict" /\ k \notin DOMAIN v.d)

\* The fetched body is an object whose field k is present but empty.
PresentButEmpty(v, k) ==
    Truthy(v) /\ v.t = "dict" /\ k \in DOMAIN v.d /\ ~Truthy(v.d[k])

\* C15 (as claimed): get_fuel_prices_for_station fails with
\* NSWFuelApiClientError mentioning "malformed or empty" when the response
\* is empty, when prices is missing, and when prices is present but empty.
C15_MalformedOrEmptyAlways ==
    \A c \in Calls :
        (/\ Fetched(c, "get_fuel_prices_for_station")
         /\ \/ EmptyOrMissing(call[c].req.val, "prices")
            \/ PresentButEmpty(call[c].req.val, "prices")) =>
            /\ call[c].res.exc = ApiError
            /\ MentionsMalformedOrEmpty(call[c].res.msg)

\* C15 (amended): get_fuel_prices_for_station fails with
\* NSWFuelApiClientError in the three cases; the message mentions
\* "malformed or empty" when the response is empty or prices is missing,
\* and is "No price data found for station <code>" when prices is present
\* but empty.
C15_MalformedOrNoPriceData ==
    \A c \in Calls :
        Fetched(c, "get_fuel_prices_for_station") =>
            /\ EmptyOrMissing(call[c].req.val, "prices") =>
                  /\ call[c].res.exc = ApiError
                  /\ MentionsMalformedOrEmpty(call[c].res.msg)
            /\ PresentButEmpty(call[c].req.val, "prices") =>
                  call[c].res = Raise(ApiError,
                                      Fmt("No price data found for station {station_code}", Null))

\* C15 witness: the operation has answered a body whose prices list is
\* empty with the no-price-data error.
C15_Witness ==
    \E c \in Calls :
        /\ Fetched(c, "get_fuel_prices_for_station")
        /\ call[c].req.val = Dict([prices |-> List(<<>>)])
        /\ call[c].res.exc = ApiError
        /\ ~MentionsMalformedOrEmpty(call[c].res.msg)

(***************************************************************************)
(* The join of get_fuel_prices_within_radius.                              *)
(***************************************************************************)
\* x is a station code: a number, or the text of one.
IsCode(x) == x.t = "num" \/ (x.t = "str" /\ x.s \in DOMAIN IntOfStr)

\* The station code x denotes.
CodeOf(x) == IF x.t = "num" THEN x.n ELSE IntOfStr[x.s]

\* A station entry with every field Station needs.
WellFormedStation(st) ==
    /\ st.t = "dict"
    /\ {"brand", "code", "name", "address", "location"} \subseteq DOMAIN st.d
    /\ IsCode(st.d["code"])
    /\ st.d["location"].t = "dict"
    /\ {"latitude", "longitude"} \subseteq DOMAIN st.d["location"].d

\* A price entry with every field Price needs: fuel type, price, a
\* lastupdated text, and a station code that is absent or a code.
WellFormedPrice(p) ==
    /\ p.t = "dict"
    /\ {"fueltype", "price", "lastupdated"} \subseteq DOMAIN p.d
    /\ p.d["lastupdated"].t = "str"
    /\ "stationcode" \in DOMAIN p.d => IsCode(p.d["stationcode"])

\* A body with a non-empty stations list and a non-empty prices list.
RadiusBody(v) ==
    /\ v.t = "dict"
    /\ {"stations", "prices"} \subseteq DOMAIN v.d
    /\ v.d["stations"].t = "list" /\ v.d["stations"].a # <<>>
    /\ v.d["prices"].t = "list" /\ v.d["prices"].a # <<>>

\* Price entry p carries the code of one of the stations.
Priced(p, stations) ==
    /\ WellFormedPrice(p)
    /\ "stationcode" \in DOMAIN p.d
    /\ \E i \in 1..Len(stations) :
           CodeOf(stations[i].d["code"]) = CodeOf(p.d["stationcode"])

\* The price entries of body v that carry the code of a station of v, in
\* the order of the prices list.
Matched(v) == SelectSeq(v.d["prices"].a, LAMBDA p : Priced(p, v.d["stations"].a))

\* sp pairs price entry p with a station of the list that has p's code.
Pairs(sp, p, stations) ==
    /\ sp.price.fuel_type = p.d["fueltype"]
    /\ sp.price.price = p.d["price"]
    /\ sp.price.station_code = Num(CodeOf(p.d["stationcode"]))
    /\ sp.station.code = sp.price.station_code
    /\ \E i \in 1..Len(stations) :
           /\ CodeOf(stations[i].d["code"]) = sp.station.code.n
           /\ stations[i].d["name"] = sp.station.name
           /\ stations[i].d["brand"] = sp.station.brand

\* Price entry p has a station code that is the code of one of the stations
\* (whatever else the entry has or lacks).
CodeMatches(p, stations) ==
    /\ p.t = "dict"
    /\ "stationcode" \in DOMAIN p.d
    /\ IsCode(p.d["stationcode"])
    /\ \E i \in 1..Len(stations) :
           CodeOf(stations[i].d["code"]) = CodeOf(p.d["stationcode"])

\* The price entries of body v whose code is the code of a station of v.
CodeMatched(v) ==
    SelectSeq(v.d["prices"].a, LAMBDA p : CodeMatches(p, v.d["stations"].a))

\* C16 (as claimed): get_fuel_prices_within_radius returns exactly one
\* StationPrice for each price entry whose station code is non-null and is
\* the code of a station of the response, paired with that station, in the
\* order of the prices list.
C16_JoinEveryMatchingCode ==
    \A c \in Calls :
        LET v == call[c].req.val
        IN  (/\ Fetched(c, "get_fuel_prices_within_radius")
             /\ RadiusBody(v)
             /\ \A i \in 1..Len(v.d["stations"].a) :
                    WellFormedStation(v.d["stations"].a[i])) =>
                /\ call[c].res.exc = "none"
                /\ Len(call[c].res.val) = Len(CodeMatched(v))
                /\ \A i \in 1..Len(CodeMatched(v)) :
                       call[c].res.val[i].station.code =
                           Num(CodeOf(CodeMatched(v)[i].d["stationcode"]))

\* C16 (amended): get_fuel_prices_within_radius returns exactly one
\* StationPrice for each price entry that deserializes and whose station
\* code is the code of a station of the response, paired with that station,
\* in the order of the prices list; prices of no station, stations without
\* a price and price entries that do not deserialize add nothing and raise
\* no error.
C16_JoinInPriceOrder ==
    \A c \in Calls :
        LET v == call[c].req.val
        IN  (/\ Fetched(c, "get_fuel_prices_within_radius")
             /\ RadiusBody(v)
             /\ \A i \in 1..Len(v.d["stations"].a) :
                    WellFormedStation(v.d["stations"].a[i])) =>
                /\ call[c].res.exc = "none"
                /\ Len(call[c].res.val) = Len(Matched(v))
                /\ \A i \in 1..Len(Matched(v)) :
                       Pairs(call[c].res.val[i], Matched(v)[i], v.d["stations"].a)

\* C16 witness: two stations, and three prices of which the second belongs
\* to no station; the result pairs the first and the third, in that order.
C16_Witness ==
    \E c \in Calls :
        /\ Fetched(c, "get_fuel_prices_within_radius")
        /\ call[c].req.val = Dict([stations |-> List(<<StationA, StationB>>),
                                   prices |-> List(<<PriceB, PriceOrphan, PriceA>>)])
        /\ call[c].res.exc = "none"
        /\ Len(call[c].res.val) = 2
        /\ call[c].res.val[1].station.code = Num(880)
        /\ call[c].res.val[2].station.code = Num(678)

\* Price entry p fails to deserialize.
Malformed(p) == ~WellFormedPrice(p)

\* The entries of a list that come after a malformed one.
AfterMalformed(ps) ==
    {i \in 1..Len(ps) : \E j \in 1..(i - 1) : Malformed(ps[j])}

\* C17: in get_fuel_prices_within_radius a price entry that fails to
\* deserialize (a field missing, a null or non-numeric station code) is
\* skipped and the entries after it are still processed; a malformed price
\* entry never makes the operation fail.
C17_MalformedPricesSkipped ==
    \A c \in Calls :
        LET v == call[c].req.val
        IN  (/\ Fetched(c, "get_fuel_prices_within_radius")
             /\ RadiusBody(v)
             /\ \A i \in 1..Len(v.d["stations"].a) :
                    WellFormedStation(v.d["stations"].a[i])) =>
                LET ps == v.d["prices"].a
                    out == call[c].res.val
                IN  /\ call[c].res.exc = "none"
                    /\ \A k \in 1..Len(out) :
                           \E i \in 1..Len(ps) :
                               /\ ~Malformed(ps[i])
                               /\ out[k].price.fuel_type = ps[i].d["fueltype"]
                    /\ \A i \in AfterMalformed(ps) :
                           Priced(ps[i], v.d["stations"].a) =>
                               \E k \in 1..Len(out) :
                                   out[k].price.fuel_type = ps[i].d["fueltype"]

\* C17 witness: four malformed price entries (no fuel type, null code,
\* non-numeric code, no lastupdated) and then a well-formed one, which is
\* the one StationPrice returned.
C17_Witness ==
    \E c \in Calls :
        /\ Fetched(c, "get_fuel_prices_within_radius")
        /\ call[c].req.val =
               Dict([stations |-> List(<<StationA>>),
                     prices |-> List(<<PriceNoFuel, PriceNullCode, PriceBadCode,
                                       PriceNoDate, PriceA>>)])
        /\ call[c].res.exc = "none"
        /\ Len(call[c].res.val) = 1
        /\ call[c].res.val[1].price.fuel_type = Str("E10")

(***************************************************************************)
(* get_fuel_prices.                                                        *)
(***************************************************************************)
\* st is the deserialization of station entry src.
StationOf(st, src) ==
    /\ st.t = "Station"
    /\ st.code = Num(CodeOf(src.d["code"]))
    /\ st.name = src.d["name"]
    /\ st.brand = src.d["brand"]
    /\ st.address = src.d["address"]

\* pr is the deserialization of price entry src.
PriceOf(pr, src) ==
    /\ pr.t = "Price"
    /\ pr.fuel_type = src.d["fueltype"]
    /\ pr.price = src.d["price"]
    /\ pr.station_code = IF "stationcode" \in DOMAIN src.d
                         THEN Num(CodeOf(src.d["stationcode"])) ELSE Null

\* C18: get_fuel_prices returns a GetFuelPricesResponse whose stations and
\* prices lists are as long as the source lists, the i-th element being the
\* deserialization of the i-th source element: nothing is joined, filtered
\* or checked against the stations.
C18_PricesAsInSource ==
    \A c \in Calls :
        LET v == call[c].req.val
        IN  (/\ Fetched(c, "get_fuel_prices")
             /\ RadiusBody(v)
             /\ \A i \in 1..Len(v.d["stations"].a) :
                    WellFormedStation(v.d["stations"].a[i])
             /\ \A i \in 1..Len(v.d["prices"].a) :
                    WellFormedPrice(v.d["prices"].a[i])) =>
                LET out == call[c].res.val
                IN  /\ call[c].res.exc = "none"
                    /\ out.t = "GetFuelPricesResponse"
                    /\ Len(out.stations) = Len(v.d["stations"].a)
                    /\ Len(out.prices) = Len(v.d["prices"].a)
                    /\ \A i \in 1..Len(out.stations) :
                           StationOf(out.stations[i], v.d["stations"].a[i])
                    /\ \A i \in 1..Len(out.prices) :
                           PriceOf(out.prices[i], v.d["prices"].a[i])

\* C18 witness: two stations and three prices, the second of a station that
\* is not listed: all three prices are returned, in source order.
C18_Witness ==
    \E c \in Calls :
        /\ Fetched(c, "get_fuel_prices")
        /\ call[c].res.exc = "none"
        /\ Len(call[c].res.val.stations) = 2
        /\ Len(call[c].res.val.prices) = 3
        /\ call[c].res.val.prices[1].station_code = Num(880)
        /\ call[c].res.val.prices[2].station_code = Num(61)
        /\ call[c].res.val.prices[3].station_code = Num(678)

(***************************************************************************)
(* Price.deserialize and lastupdated.                                      *)
(***************************************************************************)
\* The texts in DD/MM/YYYY HH:MM:SS or in YYYY-MM-DD HH:MM:SS format.
InEitherFormat(x) ==
    x.t = "str" /\ x.s \in {"01/06/2018 02:03:04", "2018-06-01 02:03:04"}

\* A price entry that has all that Price needs, lastupdated set aside.
WellFormedButDate(p) ==
    /\ p.t = "dict"
    /\ {"fueltype", "price"} \subseteq DOMAIN p.d
    /\ "stationcode" \in DOMAIN p.d => IsCode(p.d["stationcode"])

\* get_fuel_prices_for_station of invocation c has deserialized the prices
\* list ps, whose entries have all that Price needs, lastupdated set aside.
DeserializedPrices(c, ps) ==
    /\ Fetched(c, "get_fuel_prices_for_station")
    /\ call[c].req.val.t = "dict"
    /\ "prices" \in DOMAIN call[c].req.val.d
    /\ call[c].req.val.d["prices"] = List(ps)
    /\ ps # <<>>
    /\ \A i \in 1..Len(ps) : WellFormedButDate(ps[i])

\* The prices lists of the bodies of the model.
PricesLists ==
    {b.d["prices"].a : b \in {x \in DataBodies :
        x.t = "dict" /\ "prices" \in DOMAIN x.d /\ x.d["prices"].t = "list"}}

\* last_updated of pr is as the lastupdated text x tells: a date-time when x
\* is in one of the two formats, null when it is not.
DateOf(pr, x) ==
    IF InEitherFormat(x) THEN pr.last_updated # Null /\ pr.last_updated.t = "datetime"
    ELSE pr.last_updated = Null

\* C19 (as claimed): Price.deserialize succeeds with a non-null last_updated
\* when lastupdated is in one of the two formats, and for every other
\* lastupdated (a text in neither format, null, the field absent) it yields
\* last_updated = null and raises nothing.
C19_UnparseableDateIsNull ==
    \A c \in Calls : \A ps \in PricesLists :
        DeserializedPrices(c, ps) =>
            /\ call[c].res.exc = "none"
            /\ \A i \in 1..Len(ps) :
                   DateOf(call[c].res.val[i],
                          IF "lastupdated" \in DOMAIN ps[i].d
                          THEN ps[i].d["lastupdated"] ELSE Null)

\* C19 (amended): Price.deserialize succeeds with a non-null last_updated
\* when lastupdated is a text in one of the two formats, and yields
\* last_updated = null, raising nothing, when it is a text in neither
\* format; it raises KeyError when the field is absent and TypeError when
\* lastupdated is null.
C19_UnparseableTextIsNull ==
    \A c \in Calls : \A ps \in PricesLists :
        DeserializedPrices(c, ps) =>
            /\ (\A i \in 1..Len(ps) :
                    "lastupdated" \in DOMAIN ps[i].d /\ ps[i].d["lastupdated"].t = "str") =>
                   /\ call[c].res.exc = "none"
                   /\ \A i \in 1..Len(ps) :
                          DateOf(call[c].res.val[i], ps[i].d["lastupdated"])
            /\ "lastupdated" \notin DOMAIN ps[1].d => call[c].res.exc = "KeyError"
            /\ ("lastupdated" \in DOMAIN ps[1].d /\ ps[1].d["lastupdated"] = Null) =>
                   call[c].res.exc = "TypeError"

\* C19 witness: a price in the second format and a price whose lastupdated
\* is a text in neither format, deserialized to a date-time and to null.
C19_Witness ==
    \E c \in Calls :
        /\ DeserializedPrices(c, <<PriceB, PriceBadDate>>)
        /\ call[c].res.exc = "none"
        /\ call[c].res.val[1].last_updated # Null
        /\ call[c].res.val[2].last_updated = Null

(***************************************************************************)
(* get_reference_data.                                                     *)
(***************************************************************************)
\* C20: get_reference_data fails with NSWFuelApiClientError whenever its
\* request returns an empty response (empty object, empty list, empty text,
\* nothing), also for a 3xx reply to a request that carries
\* if-modified-since; it never returns a GetReferenceDataResponse for an
\* empty body.
C20_EmptyReferenceDataRejected ==
    \A c \in Calls :
        Fetched(c, "get_reference_data") =>
            /\ ~Truthy(call[c].req.val) =>
                  call[c].res = Raise(ApiError,
                                      Str("Empty response from reference data endpoint"))
            /\ call[c].res.exc = "none" =>
                  /\ Truthy(call[c].req.val)
                  /\ call[c].res.val.t = "GetReferenceDataResponse"

\* C20 witness: get_reference_data called with modified_since has answered
\* a 304 reply with an empty body with the empty-response error.
C20_Witness ==
    \E c \in Calls :
        /\ Fetched(c, "get_reference_data")
        /\ call[c].since
        /\ call[c].last.status = 304
        /\ call[c].last.body = Raw("")
        /\ call[c].res.exc = ApiError

(***************************************************************************)
(* Request headers, concurrency and the frame of the token slot.           *)
(***************************************************************************)
\* The keys of the five base headers.
BaseKeys == {"Authorization", "Content-Type", "apikey", "TransactionID", "RequestTimestamp"}

\* The headers the caller supplied: none when extra_headers is None.
Supplied(extra) == IF extra.t = "dict" THEN extra.d ELSE <<>>

\* Header k of invocation c's data request is the base header: the bearer
\* token, the JSON content type, the client id, a fresh transaction id, the
\* time of the request.
IsBaseHeader(c, k) ==
    LET v == call[c].headers.d[k]
    IN  CASE k = "Authorization"    -> v = Fmt("Bearer {token}", call[c].bearer)
          [] k = "Content-Type"     -> v = Str("application/json")
          [] k = "apikey"           -> v = client_id
          [] k = "TransactionID"    -> v = Fmt("{uuid}", Str("uuid.uuid4()"))
          [] k = "RequestTimestamp" -> v = Fmt("{isoformat}", Str("datetime.now(UTC)"))

\* C21: the headers of every data request are the five base headers
\* overridden by the caller's extra headers: a key that both give is sent
\* with the caller's value, and a base header whose key the caller does not
\* give is sent unchanged.
C21_ExtraHeadersOverrideBase ==
    \A c \in Calls :
        call[c].ndata > 0 =>
            LET sent == call[c].headers
                extra == Supplied(call[c].extra)
            IN  /\ sent.t = "dict"
                /\ DOMAIN sent.d = BaseKeys \cup DOMAIN extra
                /\ \A k \in DOMAIN extra : sent.d[k] = extra[k]
                /\ \A k \in BaseKeys \ DOMAIN extra : IsBaseHeader(c, k)

\* C21 witness: a data request in flight whose caller gave an Authorization
\* header and an api key of its own: both are sent as given, next to the
\* base content type.
C21_Witness ==
    \E c \in Calls :
        /\ call[c].pc = "data_wait"
        /\ Truthy(call[c].extra)
        /\ "Authorization" \in DOMAIN call[c].extra.d
        /\ call[c].headers.d["Authorization"] = Str("Basic abc")
        /\ call[c].headers.d["Authorization"] # Fmt("Bearer {token}", call[c].bearer)
        /\ call[c].headers.d["apikey"] = Str("another id")
        /\ call[c].headers.d["Content-Type"] = Str("application/json")

\* Invocation c receives a 401 for its first data request in this step and
\* goes to sleep before its retry.
Retries401(c) ==
    /\ call[c].pc = "data_wait"
    /\ call'[c].pc = "sleep"
    /\ call'[c].statuses = <<HTTP_UNAUTHORIZED>>

\* C22: concurrent invocations are not kept apart at the token slot.  An
\* invocation that finds no token sends a credential exchange also while
\* another invocation's exchange is in flight, and a 401 for a first data
\* request clears the token also when the slot holds another token than the
\* one the request carried.
C22_RefreshRaces ==
    [][\A c \in Calls :
          /\ (/\ Decides(c)
              /\ ~Truthy(token)
              /\ \E d \in Calls \ {c} : call[d].pc = "token_wait") => Exchanges(c)
          /\ (/\ Retries401(c)
              /\ Truthy(token)
              /\ token # call[c].bearer) => token' = Null /\ call'[c].cleared = token]_vars

\* C22 witness: invocation c exchanged for tokA and sent it, invocation d
\* stored tokB, and the 401 for c's request cleared tokB while d's request
\* with tokB is in flight.  No token had expired (the clock is at 0), so
\* both exchanges were sent because the token was missing.
C22_Witness ==
    \E c, d \in Calls :
        /\ c # d
        /\ now = 0
        /\ token = Null
        /\ call[c].pc = "sleep"
        /\ call[c].ntoken = 1
        /\ call[c].bearer = Str("tokA")
        /\ call[c].cleared = Str("tokB")
        /\ call[d].pc = "data_wait"
        /\ call[d].ntoken = 1
        /\ call[d].bearer = Str("tokB")
        /\ call[d].statuses = <<>>

\* Both invocations have a credential exchange in flight for the same
\* missing token.
C22_BothExchange ==
    \E c, d \in Calls :
        /\ c # d
        /\ now = 0
        /\ token = Null
        /\ call[c].pc = "token_wait"
        /\ call[d].pc = "token_wait"

\* The HTTP calls of invocation c that are in flight: sent and not yet
\* ended by a response or by an exception of the transport.
InFlight(c) == call[c].ntoken + call[c].ndata - call[c].answered

\* C23: within one invocation at most one HTTP call is in flight at any
\* time: a request is in flight only while the invocation waits for it, so
\* the token request of an attempt has ended before that attempt's data
\* request is sent, and the first data request has ended before the retry.
C23_OneRequestInFlight ==
    \A c \in Calls :
        /\ InFlight(c) \in {0, 1}
        /\ InFlight(c) = 1 <=> call[c].pc \in {"token_wait", "data_wait"}
        /\ call[c].pc = "data_wait" =>
               /\ call[c].answered = call[c].ntoken + call[c].ndata - 1
               /\ Len(call[c].statuses) = call[c].ndata - 1

\* C23 witness: the retry's data request is in flight after a token request
\* and a first data request that was answered with 408.
C23_Witness ==
    \E c \in Calls :
        /\ call[c].pc = "data_wait"
        /\ call[c].ntoken >= 1
        /\ call[c].ndata = 2
        /\ call[c].statuses = <<HTTP_TIMEOUT_ERROR>>
        /\ InFlight(c) = 1

\* _async_request of invocation c ended at the statement after its loop.
LeftLoop(c) ==
    /\ Over(c)
    /\ call[c].req = Raise(ApiError, Str("Failed to perform http request"))

\* C24: the statement after the retry loop, which raises
\* NSWFuelApiClientError("Failed to perform http request"), is never
\* reached: attempt never exceeds max_retries, and _async_request ends only
\* by returning a body or by raising from inside the loop.
C24_LoopExitUnreachable ==
    \A c \in Calls :
        /\ call[c].attempt <= max_retries
        /\ ~LeftLoop(c)
        /\ Over(c) => call[c].ended_by \in {"token", "data"}

\* C24 witness: an invocation that used its retry and ended inside the
\* loop, on the second 408.
C24_Witness ==
    \E c \in Calls :
        /\ Over(c)
        /\ call[c].attempt = max_retries
        /\ call[c].statuses = <<HTTP_TIMEOUT_ERROR, HTTP_TIMEOUT_ERROR>>
        /\ call[c].ended_by = "data"
        /\ call[c].req.exc = ConnectionError

\* The token slot is written in this step.
SlotWritten == token' # token \/ token_expiry' # token_expiry

\* C25 (as claimed): the token slot, value and expiry, is written only by
\* _async_get_token; no other operation of the client writes it.
C25_OnlyTokenManagerWrites ==
    [][SlotWritten => \E c \in Calls : Refreshes(c)]_vars

\* C25 (amended): the expiry is written only by a successful refresh of
\* _async_get_token; the token value is written by such a refresh and, set
\* to None, by _handle_http_error on a 401 for the first data request.
C25_ManagerOrFirst401Writes ==
    [][/\ token_expiry' # token_expiry => \E c \in Calls : Refreshes(c)
       /\ token' # token =>
              \E c \in Calls : Refreshes(c) \/ (Retries401(c) /\ token' = Null)]_vars

\* C25 witness: a 401 for the first data request has cleared the token that
\* the request carried; the expiry of that token is still in the slot.
C25_Witness ==
    \E c \in Calls :
        /\ call[c].pc = "sleep"
        /\ call[c].statuses = <<HTTP_UNAUTHORIZED>>
        /\ call[c].cleared = call[c].bearer
        /\ token = Null
        /\ token_expiry >= EXPIRY_MARGIN

\* C26: every HTTP call the client issues, the token request as well as
\* each data request, is issued with the fixed total timeout of 30 seconds.
C26_EveryCallTimesOut ==
    \A c \in Calls :
        call[c].pc \in {"token_wait", "data_wait"} =>
            call[c].timeout = Num(DEFAULT_TIMEOUT)

\* What holds of the data requests alone: each is issued with the timeout.
DataRequestsTimeOut ==
    \A c \in Calls :
        call[c].pc = "data_wait" => call[c].timeout = Num(DEFAULT_TIMEOUT)

\* A token request in flight: it was issued without a timeout argument.
TokenRequestWithoutTimeout ==
    \E c \in Calls : call[c].pc = "token_wait" /\ call[c].timeout = Null

(***************************************************************************)
(* The retry: what decides its outcome, and what it does to the token.     *)
(***************************************************************************)
\* Invocation c has received a second data response, after a first one with
\* status 401 or 408.
Retried(c) ==
    /\ Len(call[c].statuses) = 2
    /\ call[c].statuses[1] \in {HTTP_UNAUTHORIZED, HTTP_TIMEOUT_ERROR}

\* The outcome that status st of the second response stands for.
OutcomeFor(c, st) ==
    CASE st = HTTP_UNAUTHORIZED           -> call[c].req.exc = AuthError
      [] st = HTTP_TIMEOUT_ERROR          -> call[c].req.exc = ConnectionError
      [] st >= HTTP_INTERNAL_SERVER_ERROR -> call[c].req.exc = ConnectionError
      [] st >= HTTP_CLIENT_SERVER_ERROR   -> call[c].req.exc = ApiError
      [] OTHER -> call[c].req = Ok(ParsedBody(call[c].last.body))

\* C27: when the first data response is 401 or 408, the status of the
\* second response alone decides the outcome, whichever of the two caused
\* the retry: 401 gives AuthError, 408 and 5xx give ConnectionError, another
\* 4xx gives ApiError, a status below 400 returns the body; and a 401 on the
\* second attempt does not clear the token.
C27_SecondResponseDecides ==
    \A c \in Calls :
        Retried(c) =>
            /\ Over(c)
            /\ call[c].ended_by = "data"
            /\ OutcomeFor(c, call[c].statuses[2])
            /\ call[c].statuses[2] = HTTP_UNAUTHORIZED =>
                   Truthy(token) /\ token = call[c].bearer

\* What remains of C27 when the bodies on which _extract_error_details
\* raises are set aside.
SecondResponseDecides_ExceptBadDetails ==
    \A c \in Calls :
        Retried(c) =>
            /\ Over(c)
            /\ call[c].ended_by = "data"
            /\ ~BadDetails(call[c].last.body) => OutcomeFor(c, call[c].statuses[2])
            /\ call[c].statuses[2] = HTTP_UNAUTHORIZED =>
                   Truthy(token) /\ token = call[c].bearer

\* A 401 then a 408 ended in ConnectionError, and a 408 then a 401 in
\* AuthError with the token still in the slot.
SecondResponseDecided ==
    \E c \in Calls :
        /\ Over(c)
        /\ \/ call[c].statuses = <<HTTP_UNAUTHORIZED, HTTP_TIMEOUT_ERROR>>
              /\ call[c].req.exc = ConnectionError
           \/ call[c].statuses = <<HTTP_TIMEOUT_ERROR, HTTP_UNAUTHORIZED>>
              /\ call[c].req.exc = AuthError
              /\ token = call[c].bearer

\* Invocation c, asleep after a 401 for its first data request, wakes up in
\* this step.
WakesAfter401(c) ==
    /\ call[c].pc = "sleep"
    /\ call[c].statuses = <<HTTP_UNAUTHORIZED>>
    /\ call'[c].pc # "sleep"

\* Invocation c sends the data request of its retry in this step, after a
\* 401 for its first data request.
RetriesAfter401(c) ==
    /\ call[c].statuses = <<HTTP_UNAUTHORIZED>>
    /\ call[c].ndata = 1
    /\ call'[c].ndata = 2

\* C28: in sequential use, after a 401 for the first data request the
\* retry starts with one credential exchange, and its data request is sent
\* on the response of that exchange with the token the response gave; a
\* call sends at most one exchange per attempt, so at most two.
C28_RetryExchangesOnce ==
    [][\A c \in Calls :
          /\ WakesAfter401(c) => Exchanges(c)
          /\ RetriesAfter401(c) =>
                 /\ call[c].pc = "token_wait"
                 /\ call'[c].ntoken = call[c].ntoken
                 /\ \E resp \in TokenResponses :
                        /\ TokenResponse(c, resp)
                        /\ call'[c].bearer = Get(resp.body, "access_token")
                        /\ token' = call'[c].bearer
          /\ call'[c].ntoken <= call'[c].attempt + 1
          /\ call'[c].ntoken <= 2]_vars

\* C28 witness: the retry's data request is in flight after a 401, with the
\* token of the second credential exchange of the call.
C28_Witness ==
    \E c \in Calls :
        /\ call[c].pc = "data_wait"
        /\ call[c].statuses = <<HTTP_UNAUTHORIZED>>
        /\ call[c].ndata = 2
        /\ call[c].ntoken = 2
        /\ call[c].answered = 3
        /\ call[c].bearer = token

\* The refresh of invocation c fails in this step: _async_get_token raises.
RefreshFails(c) ==
    /\ call[c].pc = "token_wait"
    /\ call'[c].pc = "returned"
    /\ call'[c].ended_by = "token"

\* C29: whenever _async_get_token fails (a 401, another HTTP error, a
\* transport error, an unparsable body, a missing access_token), the token
\* value and the token expiry are left exactly as they were: a cached
\* token is neither cleared nor replaced by a failed refresh.
C29_FailedRefreshKeepsSlot ==
    [][\A c \in Calls : RefreshFails(c) => UNCHANGED <<token, token_expiry>>]_vars

\* C29 witness: a refresh failed while the slot held a token, one that had
\* come within 60 seconds of its expiry; the token is still there.
C29_Witness ==
    \E c \in Calls :
        /\ call[c].pc = "returned"
        /\ call[c].ended_by = "token"
        /\ call[c].req.exc \in {AuthError, ApiError}
        /\ Truthy(token)
        /\ call[c].t_now > token_expiry - EXPIRY_MARGIN

\* Invocation c receives a 408 for its first data request in this step and
\* goes to sleep before its retry.
Retries408(c) ==
    /\ call[c].pc = "data_wait"
    /\ call'[c].pc = "sleep"
    /\ call'[c].statuses = <<HTTP_TIMEOUT_ERROR>>

\* Invocation c, asleep after a 408 for its first data request, wakes up in
\* this step.
WakesAfter408(c) ==
    /\ call[c].pc = "sleep"
    /\ call[c].statuses = <<HTTP_TIMEOUT_ERROR>>
    /\ call'[c].pc # "sleep"

\* C30: a retry caused by a 408 leaves the token slot unchanged: the 408
\* writes nothing to it, and the second attempt sends its data request with
\* the same cached token and without a credential exchange, unless the
\* token has meanwhile come within 60 seconds of its expiry (then the
\* second attempt starts with an exchange).
C30_Retry408KeepsSlot ==
    [][\A c \in Calls :
          /\ Retries408(c) => UNCHANGED <<token, token_expiry>>
          /\ WakesAfter408(c) =>
                 IF now > token_expiry - EXPIRY_MARGIN
                 THEN Exchanges(c)
                 ELSE /\ Reuses(c)
                      /\ call'[c].bearer = call[c].bearer
                      /\ call'[c].ndata = 2]_vars

\* C30 witness: the retry after a 408 is in flight with the token that an
\* earlier call had left in the slot; this call has sent no credential
\* exchange at all.
C30_Witness ==
    \E c \in Calls :
        /\ call[c].pc = "data_wait"
        /\ call[c].statuses = <<HTTP_TIMEOUT_ERROR>>
        /\ call[c].ndata = 2
        /\ call[c].ntoken = 0
        /\ call[c].bearer = token
        /\ now <= token_expiry - EXPIRY_MARGIN

\* The retry after a 408 starts with a credential exchange, the cached
\* token having come within 60 seconds of its expiry during the first
\* attempt.
Retry408Exchanges ==
    \E c \in Calls :
        /\ call[c].pc = "token_wait"
        /\ call[c].statuses = <<HTTP_TIMEOUT_ERROR>>
        /\ call[c].ntoken = 1
        /\ call[c].ndata = 1
        /\ Truthy(token)
        /\ call[c].bearer = token
        /\ call[c].t_now > token_expiry - EXPIRY_MARGIN

(***************************************************************************)
(* The operation after a call that failed on a second 401.                 *)
(***************************************************************************)
\* Invocation c starts in this step, and the invocation before it failed
\* with AuthError on a second 401.
StartsAfterRejection(c) ==
    /\ call[c].pc = "idle"
    /\ Truthy(call[c].rejected)
    /\ call'[c].pc # "idle"

\* C31 (as claimed): after a call has failed with AuthError on a second 401
\* the slot still holds the token of the second attempt, and the next
\* operation sends that token on its first attempt, without a credential
\* exchange.
C31_RejectedTokenSentAgain ==
    [][\A c \in Calls :
          StartsAfterRejection(c) =>
              /\ token = call[c].rejected
              /\ Reuses(c)
              /\ call'[c].bearer = call[c].rejected]_vars

\* C31 (amended): after a call has failed with AuthError on a second 401
\* the slot still holds the token of the second attempt; the next operation
\* sends that token on its first attempt, without a credential exchange,
\* unless the token has by then come within 60 seconds of its expiry: then
\* the operation starts with a credential exchange.
C31_RejectedTokenSentUntilExpiry ==
    [][\A c \in Calls :
          StartsAfterRejection(c) =>
              /\ token = call[c].rejected
              /\ IF now > token_expiry - EXPIRY_MARGIN
                 THEN Exchanges(c)
                 ELSE Reuses(c) /\ call'[c].bearer = call[c].rejected]_vars

\* C31 witness: the first data request of an operation is in flight with
\* the token that the second 401 of the call before it had rejected; the
\* operation has sent no credential exchange.
C31_Witness ==
    \E c \in Calls :
        /\ call[c].pc = "data_wait"
        /\ call[c].ntoken = 0
        /\ call[c].ndata = 1
        /\ Truthy(call[c].rejected)
        /\ call[c].bearer = call[c].rejected
        /\ token = call[c].rejected

(***************************************************************************)
(* What _async_get_token returns.                                          *)
(***************************************************************************)
\* _async_get_token of invocation c returns normally in this step: the
\* invocation goes on to line 264 with what it returned.
GetTokenReturns(c) ==
    /\ call[c].pc \in {"idle", "sleep", "token_wait"}
    /\ \/ call'[c].pc = "data_wait"
       \/ call'[c].pc = "returned" /\ call'[c].ended_by = "loop"

\* _async_request of invocation c has failed for want of a token.
NoTokenAvailable(c) ==
    /\ Over(c)
    /\ call[c].req.msg = Str("No access token available for NSW Fuel API request")

\* C32: whenever _async_get_token returns normally it returns a non-empty
\* token, the one the slot then holds, also when other invocations run
\* between its awaits; so _async_request never raises "No access token
\* available".
C32_TokenReturnedNonEmpty ==
    [][\A c \in Calls :
          /\ GetTokenReturns(c) =>
                 /\ call'[c].pc = "data_wait"
                 /\ Truthy(call'[c].bearer)
                 /\ call'[c].bearer = token'
          /\ ~NoTokenAvailable(c)']_vars

\* C32 witness: two invocations found the token missing and exchanged for
\* it at the same time; each went on with the token of its own exchange,
\* and the slot holds the one stored last.
C32_Witness ==
    \E c, d \in Calls :
        /\ c # d
        /\ now = 0
        /\ call[c].pc = "data_wait" /\ call[d].pc = "data_wait"
        /\ call[c].attempt = 0 /\ call[d].attempt = 0
        /\ call[c].ntoken = 1 /\ call[d].ntoken = 1
        /\ call[c].bearer = Str("tokA")
        /\ call[d].bearer = Str("tokB")
        /\ token = Str("tokB")

(***************************************************************************)
(* Termination of _async_request.                                          *)
(***************************************************************************)
\* _async_request of invocation c is running.
Running(c) == call[c].pc \in {"token_wait", "data_wait", "sleep"}

\* _async_request of invocation c is over within its bounds: at most two
\* data requests and two token requests were sent.
Terminated(c) ==
    /\ Over(c)
    /\ call[c].ndata <= 2
    /\ call[c].ntoken <= 2

\* C33: provided every HTTP call ends (with a response or with a transport
\* error), every invocation of _async_request ends, by returning a body or
\* by raising one of the three domain errors, after at most two data
\* requests and two token requests.
C33_RequestTerminates ==
    \A c \in Sequential :
        Running(c) ~> (Terminated(c) /\ call[c].req.exc \in {"none"} \cup DomainErrors)

\* What remains of C33 when the kind of the error is set aside: every
\* invocation ends, within the two data and two token requests.
RequestTerminates_AnyError ==
    \A c \in Sequential : Running(c) ~> Terminated(c)

(***************************************************************************)
(* get_fuel_prices_within_radius: empty lists, no match, shared codes.     *)
(***************************************************************************)
\* A body with a stations list and a prices list, empty or not.
ListsBody(v) ==
    /\ v.t = "dict"
    /\ {"stations", "prices"} \subseteq DOMAIN v.d
    /\ v.d["stations"].t = "list"
    /\ v.d["prices"].t = "list"

\* Every station entry of body v is well formed.
WellFormedStations(v) ==
    \A i \in 1..Len(v.d["stations"].a) : WellFormedStation(v.d["stations"].a[i])

\* The last station of the list that has code n.
LastWithCode(stations, n) ==
    stations[CHOOSE i \in 1..Len(stations) :
                 /\ CodeOf(stations[i].d["code"]) = n
                 /\ \A j \in (i + 1)..Len(stations) : CodeOf(stations[j].d["code"]) # n]

\* C34: get_fuel_prices_within_radius raises an error when the stations
\* list or the prices list is empty; when both are non-empty and no price
\* entry matches a station code, or every price entry is malformed, it
\* returns an empty list without error; when two stations share a code, a
\* price is paired with the last such station of the source list.
C34_EmptyListsNoMatchSharedCodes ==
    \A c \in Calls :
        LET v == call[c].req.val
        IN  (Fetched(c, "get_fuel_prices_within_radius") /\ ListsBody(v)) =>
                LET stations == v.d["stations"].a
                    prices == v.d["prices"].a
                    out == call[c].res
                IN  /\ (stations = <<>> \/ prices = <<>>) =>
                           /\ out.exc = ApiError
                           /\ out.msg = Fmt("No stations/prices found for location ({latitude}, {longitude})", Null)
                    /\ (/\ stations # <<>> /\ prices # <<>>
                        /\ WellFormedStations(v)
                        /\ \A i \in 1..Len(prices) :
                               Malformed(prices[i]) \/ ~Priced(prices[i], stations)) =>
                           out = Ok(<<>>)
                    /\ (stations # <<>> /\ prices # <<>> /\ WellFormedStations(v)) =>
                           /\ out.exc = "none"
                           /\ \A k \in 1..Len(out.val) :
                                  LET st == LastWithCode(stations, out.val[k].station.code.n)
                                  IN  /\ out.val[k].station.name = st.d["name"]
                                      /\ out.val[k].station.brand = st.d["brand"]
                                      /\ out.val[k].station.address = st.d["address"]

\* C34 witness: one station and two price entries, one of another station
\* and one with a code that is no number; the operation has returned an
\* empty list.
C34_Witness ==
    \E c \in Calls :
        /\ Fetched(c, "get_fuel_prices_within_radius")
        /\ call[c].req.val = Dict([stations |-> List(<<StationA>>),
                                   prices |-> List(<<PriceOrphan, PriceBadCode>>)])
        /\ call[c].res = Ok(<<>>)

\* Two stations share code 678; the price of 678 is paired with the one
\* that comes last in the list.
SharedCodePairsLast ==
    \E c \in Calls :
        /\ Fetched(c, "get_fuel_prices_within_radius")
        /\ call[c].req.val = Dict([stations |-> List(<<StationA, StationA2>>),
                                   prices |-> List(<<PriceA>>)])
        /\ call[c].res.exc = "none"
        /\ Len(call[c].res.val) = 1
        /\ call[c].res.val[1].station.name = Str("Other Fuel Brand Hurstville")

\* The stations list is empty and the prices list is not: the operation has
\* raised NSWFuelApiClientError.
EmptyStationsRejected ==
    \E c \in Calls :
        /\ Fetched(c, "get_fuel_prices_within_radius")
        /\ call[c].req.val = Dict([stations |-> List(<<>>), prices |-> List(<<PriceA>>)])
        /\ call[c].res.exc = ApiError
====
